---- MODULE Spec2Model ----
(***************************************************************************)
(* Model of the Kubernetes component adapter of odo                        *)
(* (pkg/devfile/adapters/kubernetes/component/adapter.go).                 *)
(*                                                                         *)
(* Its parts, each with its own specification:                             *)
(*   Spec          Adapter.Build with both build strategies, the interrupt *)
(*                 listener goroutine and the cluster's build objects      *)
(*   SpecKaniko    Adapter.Build with the pod-based strategy alone         *)
(*   SpecTag       isInternalRegistry as a pure function over tags         *)
(*   SpecReconcile Adapter.createOrUpdateComponent (Deployment, Service,   *)
(*                 PVCs) driven by the existence probe of Push, with       *)
(*                 Adapter.Delete and the cluster's garbage collector      *)
(*   SpecPush      the whole of Adapter.Push: createOrUpdateComponent, the *)
(*                 waits, the sync, execDevfileEvent and execDevfile; and  *)
(*                 Adapter.Test                                            *)
(*   SpecValidation one command, a Push up to the end of                   *)
(*                 createOrUpdateComponent or an uninterrupted Build       *)
(*   SpecDeploy    Adapter.Deploy and Adapter.DeployDelete over the        *)
(*                 documents of a manifest, with the local manifest file   *)
(*                 and the image stream                                    *)
(***************************************************************************)
EXTENDS Integers, Sequences, FiniteSets, TLC

(***************************************************************************)
(* Bounds of the model                                                     *)
(***************************************************************************)
\* interrupts (SIGINT/SIGTERM) the user sends to one process
MaxInterrupts == 2
\* odo processes started one after the other against the same cluster
MaxProcs == 2
\* longest tag, in tokens, given to isInternalRegistry
MaxTagLen == 5
\* Push, Test and Delete calls made one after the other on one component
MaxOps == 3
\* longest manifest, in tokens, given to Deploy and DeployDelete
MaxManifestLen == 3
\* Deploy and DeployDelete calls made one after the other
MaxDeploys == 1

(***************************************************************************)
(* Image tags.  A tag is a sequence of tokens; the token "/" is the        *)
(* separator strings.Split splits on, every other token is a piece of text *)
(* that holds no '/'.  No concatenation of the other tokens spells the     *)
(* internal registry host.                                                 *)
(***************************************************************************)
internalRegistryHost == "image-registry.openshift-image-registry.svc:5000"

TagAlphabet == {"/", internalRegistryHost, "myrepo", "app:latest"}

RECURSIVE SeqsUpTo(_, _)
SeqsUpTo(S, n) ==
    IF n = 0 THEN {<<>>}
    ELSE LET shorter == SeqsUpTo(S, n - 1)
         IN  shorter \cup {Append(s, x) : s \in {t \in shorter : Len(t) = n - 1}, x \in S}

AllTags == SeqsUpTo(TagAlphabet, MaxTagLen)

\* strings.Split(imageTag, "/"): the pieces between the separators, empty
\* pieces kept; a tag without separator is one piece (also the empty tag).
RECURSIVE SplitFrom(_, _, _)
SplitFrom(tag, i, cur) ==
    IF i > Len(tag) THEN <<cur>>
    ELSE IF tag[i] = "/" THEN <<cur>> \o SplitFrom(tag, i + 1, <<>>)
    ELSE SplitFrom(tag, i + 1, Append(cur, tag[i]))

StringsSplit(tag) == SplitFrom(tag, 1, <<>>)

\* a mutant of isInternalRegistry: accepts three or more segments
isInternalRegistry_AtLeast3(imageTag) ==
    LET components == StringsSplit(imageTag)
    IN  IF Len(components) < 3
        THEN [internal |-> FALSE, err |-> TRUE]
        ELSE [internal |-> components[1] = <<internalRegistryHost>>, err |-> FALSE]

\* isInternalRegistry(imageTag) (bool, error)
isInternalRegistry(imageTag) ==
    LET components == StringsSplit(imageTag)
    IN  IF Len(components) # 3
        THEN [internal |-> FALSE, err |-> TRUE]
        ELSE IF components[1] = <<internalRegistryHost>>
        THEN [internal |-> TRUE, err |-> FALSE]
        ELSE [internal |-> FALSE, err |-> FALSE]

\* the tags Build is called with: empty, two segments, internal, external
BuildTags ==
    { <<>>,
      <<"myrepo", "/", "app:latest">>,
      <<internalRegistryHost, "/", "myrepo", "/", "app:latest">>,
      <<"myrepo", "/", "myrepo", "/", "app:latest">> }

VARIABLES
    \* ---- the odo process running Build ----
    proc,        \* "running" | "exited" (os.Exit in terminateBuild) | "killed" (default signal action) | "ended" (main returned)
    nprocs,      \* processes started so far
    bpc,         \* position of the main thread in Build / runBuildConfig / runKaniko
    tag,         \* parameters.Tag
    rootless,    \* parameters.Rootless
    isBuildConfigSupported,
    isImageRegistryInternal,
    err,         \* the error result of Build (named result err of runBuildConfig)
    primary,     \* the error the build itself produced, before the deferred delete ran
    lpc,         \* position of the terminateBuild goroutine
    notify,      \* signal.Notify(controlC, ...) is in force
    controlC,    \* signals buffered in the channel controlC (capacity 1)
    nintr,       \* interrupts sent to this process
    blog,        \* what this process did, in order
    \* ---- the cluster's build-side objects ----
    bc,          \* the BuildConfig named after the component: "none" or its output kind
    secret,      \* the secret regcred exists
    kpod,        \* the Kaniko builder pod named after the component exists
    stream,      \* lines the build had written to its output stream when the wait for it failed
    errOutput,   \* the output quoted in the error the build strategy returned
    \* ---- isInternalRegistry as a function ----
    tpc, ttag, tres,
    \* ---- Push / createOrUpdateComponent / Delete and the component's objects ----
    rpc,              \* position in Push: "idle", the steps of createOrUpdateComponent, "done"
    nops,             \* Push and Delete calls so far
    desired,          \* the devfile's component: container ports and each container's volumes
    componentExists,  \* the result of utils.ComponentExists at the start of Push
    storages,         \* uniqueStorages, as a sequence of [name, vol]
    volumeNameToPVCName, \* the PVC name mounted for each volume, as a set of <<volume, name>>
    depUid,           \* the uid of the Deployment returned by create / update
    found,            \* the Service lookup returned the Service (err == nil)
    oldSvc,           \* the Service the lookup returned
    rerr,             \* the error the call returns
    rlog,             \* the requests this call sent, in order
    liveSvc,          \* a Service was live when this call looked it up or decided on it
    prev,             \* the last createOrUpdateComponent that succeeded: its input and the names it left
    twice,            \* [on, names]: this Push repeats prev unchanged on an existing component; the names prev left
    deployment,       \* the uid of the live Deployment, 0 when there is none
    nextUid,          \* the uid the cluster gives the next Deployment
    service,          \* the Service named after the component: [live, clusterIP, rv, owner, ports]
    pvcs,             \* the live PVCs: [name, vol, owner]
    \* ---- Push after createOrUpdateComponent: waits, sync, events, execDevfile ----
    ppc,              \* position in Push: "idle", "reconcile", the later steps, "returned", "crashed", "exited"
    execRequired,     \* what syncAdapter.SyncFiles reported
    devfile,          \* the commands and events of the devfile, as far as this push has read them
    events,           \* the postStart events execDevfileEvent has still to execute
    xlog,             \* the commands this push has executed in the pod, in order
    perr,             \* the error Push returns
    podChanged,       \* Push's podChanged: the pod's name is not the one before the rollout
    \* ---- Deploy and DeployDelete ----
    dpc,              \* position in the call: "idle", "doc" (Deploy's loop), "finish", "del" (DeployDelete's loop), "returned"
    ndeploys,         \* Deploy and DeployDelete calls so far
    manifest,         \* parameters.ManifestSource, or DeployDelete's manifest
    di,               \* the document of the manifest the loop is at
    tagged,           \* parameters.Tag was not empty
    imageStream,      \* Deploy's imageStream: nil, or the stream with its owner references
    writtenToManifest,\* Deploy's writtenToManifest
    manifestFile,     \* the content of .odo/manifest.yaml
    cluster,          \* the live objects of the manifest's kinds in the namespace
    streamRefs,       \* the owner references of the image stream on the cluster
    dlog,             \* the call and the requests it has sent, in order
    deployErr         \* the error the call returns

buildVars == <<proc, nprocs, bpc, tag, rootless, isBuildConfigSupported,
               isImageRegistryInternal, err, primary, lpc, notify, controlC,
               nintr, blog, bc, secret, kpod, stream, errOutput>>
tagVars == <<tpc, ttag, tres>>
reconVars == <<rpc, nops, desired, componentExists, storages, volumeNameToPVCName, depUid, found, oldSvc,
               rerr, rlog, liveSvc, prev, twice, deployment, nextUid, service, pvcs>>
pushVars == <<ppc, execRequired, devfile, events, xlog, perr, podChanged>>
deployVars == <<dpc, ndeploys, manifest, di, tagged, imageStream, writtenToManifest, manifestFile,
                cluster, streamRefs, dlog, deployErr>>
notBuild == <<tagVars, reconVars, pushVars, deployVars>>
vars == <<buildVars, tagVars, deployVars, reconVars, pushVars, deployVars>>

NoResult == [internal |-> FALSE, err |-> FALSE]

BuildIdle ==
    /\ proc = "running" /\ nprocs = 1 /\ bpc = "idle"
    /\ tag = <<>> /\ rootless = FALSE
    /\ isBuildConfigSupported = FALSE /\ isImageRegistryInternal = FALSE
    /\ err = "nil" /\ primary = "nil"
    /\ lpc = "none" /\ notify = FALSE /\ controlC = 0 /\ nintr = 0
    /\ blog = <<>>
    /\ bc = "none" /\ secret = FALSE /\ kpod = FALSE
    /\ stream = "" /\ errOutput = ""

TagIdle == tpc = "idle" /\ ttag = <<>> /\ tres = NoResult

\* the kinds of object the manifests of the model describe, one name each
Kinds == {"Service", "Deployment"}
\* no live object of a kind
NoObject == [live |-> FALSE, rv |-> 0, ann |-> "", ip |-> ""]
\* Deploy's imageStream while it is nil
NoImageStream == [set |-> FALSE, refs |-> <<>>]

\* no call of Deploy or DeployDelete is under way
DeployCallIdle ==
    /\ dpc = "idle" /\ ndeploys = 0
    /\ manifest = <<>> /\ di = 0 /\ tagged = FALSE
    /\ imageStream = NoImageStream /\ writtenToManifest = FALSE
    /\ dlog = <<>> /\ deployErr = "nil"

\* nothing was deployed: no live object, no local manifest file
DeployIdle ==
    /\ DeployCallIdle
    /\ manifestFile = <<>> /\ streamRefs = <<>>
    /\ cluster = [k \in Kinds |-> NoObject]


(***************************************************************************)
(* The component: what the devfile asks for and what the cluster holds     *)
(***************************************************************************)
ComponentName == "nodejs"
Containers == {"runtime", "tools"}
\* the orders in which ranging over the map containerNameToVolumes can visit the containers
ContainerOrders == {<<"runtime", "tools">>, <<"tools", "runtime">>}
\* containerNameToVolumes: the volumes each container mounts, in devfile order
VolumeConfigs ==
    { [runtime |-> <<>>, tools |-> <<>>],
      [runtime |-> <<"v1">>, tools |-> <<"v1">>],
      [runtime |-> <<"v1", "v2">>, tools |-> <<>>] }
\* the container ports of the pod template, all containers together
PortSets == {{}, {3000}}
DesiredComponents == [ports : PortSets, vols : VolumeConfigs]
\* the addresses the cluster assigns to a new Service
ClusterIPs == {"10.0.0.5", "10.0.0.6"}
\* spec.clusterIP of the generated Service spec
TemplateIPs == {"", "10.0.0.9"}

NoSvc == [live |-> FALSE, clusterIP |-> "", rv |-> 0, owner |-> 0, ports |-> {}]
NotTwice == [on |-> FALSE, names |-> {}]
\* nothing of the devfile's commands has been read
NoDevfile == [postStart |-> <<>>, init |-> "unread", build |-> "unread", run |-> "unread",
              debug |-> FALSE, restart |-> FALSE, supervisord |-> FALSE]
PushIdle ==
    /\ ppc = "idle" /\ execRequired = FALSE /\ devfile = NoDevfile
    /\ events = <<>> /\ xlog = <<>> /\ perr = "nil" /\ podChanged = FALSE
NoPrev == [ok |-> FALSE, desired |-> [ports |-> {}, vols |-> [runtime |-> <<>>, tools |-> <<>>]], names |-> {}]

ReconIdle ==
    /\ rpc = "idle" /\ nops = 0
    /\ desired = NoPrev.desired
    /\ componentExists = FALSE
    /\ storages = <<>> /\ volumeNameToPVCName = {} /\ depUid = 0 /\ found = FALSE /\ oldSvc = NoSvc
    /\ rerr = "nil" /\ rlog = <<>> /\ liveSvc = FALSE
    /\ prev = NoPrev /\ twice = NotTwice
    /\ deployment = 0 /\ nextUid = 1 /\ service = NoSvc /\ pvcs = {}
    /\ PushIdle

(***************************************************************************)
(* Build                                                                   *)
(***************************************************************************)
Log(e) == blog' = Append(blog, e)
Has(e) == \E i \in 1..Len(blog) : blog[i] = e
Count(e) == Cardinality({i \in 1..Len(blog) : blog[i] = e})
\* the first place of e in the log, 0 when it is not there
First(e) == IF Has(e) THEN CHOOSE i \in 1..Len(blog) : blog[i] = e /\ \A j \in 1..(i-1) : blog[j] # e ELSE 0
Before(a, b) == Has(a) /\ Has(b) /\ First(a) < First(b)

Running == proc = "running"

\* Build returns e to its caller
Return(e) == bpc' = "returned" /\ err' = e

\* Build is called (line 168): parameters.Tag and parameters.Rootless
BuildStart ==
    /\ Running /\ bpc = "idle"
    /\ \E t \in BuildTags, r \in BOOLEAN : tag' = t /\ rootless' = r
    /\ bpc' = "probe"
    /\ Log("Build")
    /\ UNCHANGED <<proc, nprocs, isBuildConfigSupported, isImageRegistryInternal,
                   err, primary, lpc, notify, controlC, nintr, bc, secret, kpod>>
    /\ UNCHANGED <<stream, errOutput>>
    /\ UNCHANGED notBuild

\* occlient.New and client.IsBuildConfigSupported (lines 170-178)
BuildProbe ==
    /\ Running /\ bpc = "probe"
    /\ \E r \in {"clientErr", "supportedErr", "supported", "unsupported"} :
          IF r \in {"clientErr", "supportedErr"}
          THEN Return(r) /\ UNCHANGED isBuildConfigSupported
          ELSE bpc' = "tag" /\ isBuildConfigSupported' = (r = "supported") /\ UNCHANGED err
    /\ UNCHANGED <<proc, nprocs, tag, rootless, isImageRegistryInternal, primary,
                   lpc, notify, controlC, nintr, blog, bc, secret, kpod>>
    /\ UNCHANGED <<stream, errOutput>>
    /\ UNCHANGED notBuild

\* isInternalRegistry(parameters.Tag) (lines 180-183)
BuildTag ==
    /\ Running /\ bpc = "tag"
    /\ LET r == isInternalRegistry(tag)
       IN  IF r.err
           THEN Return("tagErr") /\ UNCHANGED isImageRegistryInternal
           ELSE /\ isImageRegistryInternal' = r.internal
                /\ bpc' = "secret"
                /\ UNCHANGED err
    /\ UNCHANGED <<proc, nprocs, tag, rootless, isBuildConfigSupported, primary,
                   lpc, notify, controlC, nintr, blog, bc, secret, kpod>>
    /\ UNCHANGED <<stream, errOutput>>
    /\ UNCHANGED notBuild

\* a mutant of NeedsSecret: the secret is created for every tag
NeedsSecret_Always(internal) == TRUE

\* if !isImageRegistryInternal (line 185)
NeedsSecret(internal) == ~internal

\* createDockerConfigSecret (lines 185-189, 1025-1040): reading the docker
\* config file or building the secret can fail before any request is sent;
\* the Create request fails when regcred exists already, and can fail anyway.
BuildSecret ==
    /\ Running /\ bpc = "secret"
    /\ IF NeedsSecret(isImageRegistryInternal)
       THEN \E r \in {"fileErr", "createErr", "created"} :
               CASE r = "fileErr" ->
                      Return("secretErr") /\ Log("secret.file.fail") /\ UNCHANGED secret
                 [] r = "createErr" ->
                      Return("secretErr") /\ Log("secret.create.fail") /\ UNCHANGED secret
                 [] r = "created" ->
                      IF secret
                      THEN Return("secretErr") /\ Log("secret.create.fail") /\ UNCHANGED secret
                      ELSE secret' = TRUE /\ Log("secret.create") /\ bpc' = "select" /\ UNCHANGED err
       ELSE bpc' = "select" /\ UNCHANGED <<err, secret, blog>>
    /\ UNCHANGED <<proc, nprocs, tag, rootless, isBuildConfigSupported,
                   isImageRegistryInternal, primary, lpc, notify, controlC, nintr, bc, kpod>>
    /\ UNCHANGED <<stream, errOutput>>
    /\ UNCHANGED notBuild

\* a mutant of UseBuildConfig: the rootless flag is ignored
UseBuildConfig_IgnoreRootless(supported, rless) == supported

\* isBuildConfigSupported && !parameters.Rootless (line 191)
UseBuildConfig(supported, rless) == supported /\ ~rless

\* the strategy is chosen (lines 191-195)
BuildSelect ==
    /\ Running /\ bpc = "select"
    /\ IF UseBuildConfig(isBuildConfigSupported, rootless)
       THEN bpc' = "rbc_notify"
       ELSE bpc' = "k_create"
    /\ UNCHANGED <<proc, nprocs, tag, rootless, isBuildConfigSupported,
                   isImageRegistryInternal, err, primary, lpc, notify, controlC,
                   nintr, blog, bc, secret, kpod>>
    /\ UNCHANGED <<stream, errOutput>>
    /\ UNCHANGED notBuild

(***************************************************************************)
(* runBuildConfig: the in-cluster strategy (lines 86-150)                  *)
(***************************************************************************)
\* buildOutput (lines 93-98)
BuildOutput(t) == IF t = <<>> THEN "ImageStreamTag" ELSE "DockerImage"

\* controlC is made, signal.Notify registers it and the terminateBuild
\* goroutine is started (lines 100-102)
RbcNotify ==
    /\ Running /\ bpc = "rbc_notify"
    /\ notify' = TRUE
    /\ lpc' = "wait"
    /\ bpc' = "rbc_create"
    /\ Log("notify")
    /\ UNCHANGED <<proc, nprocs, tag, rootless, isBuildConfigSupported,
                   isImageRegistryInternal, err, primary, controlC, nintr, bc, secret, kpod>>
    /\ UNCHANGED <<stream, errOutput>>
    /\ UNCHANGED notBuild

\* client.CreateDockerBuildConfigWithBinaryInput (lines 108-111): a failure
\* returns before the deferred delete is set up
RbcCreate ==
    /\ Running /\ bpc = "rbc_create"
    /\ \E ok \in BOOLEAN :
          IF ok /\ bc = "none"
          THEN /\ bc' = BuildOutput(tag)
               /\ bpc' = "rbc_sync"
               /\ Log("bc.create")
               /\ UNCHANGED <<err, primary>>
          ELSE /\ Return("create") /\ primary' = "create"
               /\ Log("bc.create.fail")
               /\ UNCHANGED bc
    /\ UNCHANGED <<proc, nprocs, tag, rootless, isBuildConfigSupported,
                   isImageRegistryInternal, lpc, notify, controlC, nintr, secret, kpod>>
    /\ UNCHANGED <<stream, errOutput>>
    /\ UNCHANGED notBuild

\* a mutant of FailToDefer: the failing step returns without the deferred delete
FailToDefer_NoDelete(e) == err' = e /\ primary' = e /\ bpc' = "returned"

\* a step of runBuildConfig after the defer statement fails with e: the
\* return statement sets err, then the deferred function runs
FailToDefer(e) == err' = e /\ primary' = e /\ bpc' = "rbc_defer"

\* syncAdapter.SyncFilesBuild packages the context (lines 121-125)
RbcSync ==
    /\ Running /\ bpc = "rbc_sync"
    /\ \E ok \in BOOLEAN :
          IF ok
          THEN bpc' = "rbc_trigger" /\ Log("sync") /\ UNCHANGED <<err, primary>>
          ELSE FailToDefer("sync") /\ Log("sync.fail")
    /\ UNCHANGED <<proc, nprocs, tag, rootless, isBuildConfigSupported,
                   isImageRegistryInternal, lpc, notify, controlC, nintr, bc, secret, kpod>>
    /\ UNCHANGED <<stream, errOutput>>
    /\ UNCHANGED notBuild

\* client.RunBuildConfigWithBinaryInput streams the context and starts the
\* build (lines 127-130); there is nothing to start once the BuildConfig is gone
RbcTrigger ==
    /\ Running /\ bpc = "rbc_trigger"
    /\ \E ok \in BOOLEAN :
          IF ok /\ bc # "none"
          THEN bpc' = "rbc_wait" /\ Log("trigger") /\ UNCHANGED <<err, primary>>
          ELSE FailToDefer("trigger") /\ Log("trigger.fail")
    /\ UNCHANGED <<proc, nprocs, tag, rootless, isBuildConfigSupported,
                   isImageRegistryInternal, lpc, notify, controlC, nintr, bc, secret, kpod>>
    /\ UNCHANGED <<stream, errOutput>>
    /\ UNCHANGED notBuild

\* what a build has written to its output stream when the wait for it
\* fails: a build that fails or runs into the timeout has logged its steps
BuildOutputs == {"step 2/5: npm install failed"}

\* go utils.PipeStdOutput(cmdOutput, ioReader, controlC) (lines 135-137 and
\* 1151-1153): cmdOutput is a string and Go passes it by value, so the lines
\* the goroutine reads from the stream never reach the caller's variable
PipeStdOutput(cmdOutput, piped) == cmdOutput

\* client.WaitForBuildToFinish (lines 139-145): the build writes its output
\* to the pipe and completes, fails or times out; deleting the BuildConfig
\* deletes its builds, which fails the wait.  The error quotes cmdOutput
RbcWait ==
    /\ Running /\ bpc = "rbc_wait"
    /\ \E r \in {"complete", "failed", "timeout"}, n \in BuildOutputs :
          IF r = "complete" /\ bc # "none"
          THEN bpc' = "rbc_stop" /\ Log("wait.ok") /\ UNCHANGED <<err, primary, stream, errOutput>>
          ELSE FailToDefer("wait") /\ Log("wait.fail") /\ stream' = n /\ errOutput' = PipeStdOutput("", n)
    /\ UNCHANGED <<proc, nprocs, tag, rootless, isBuildConfigSupported,
                   isImageRegistryInternal, lpc, notify, controlC, nintr, bc, secret, kpod>>
    /\ UNCHANGED notBuild

\* a mutant of StopNotify: signal.Stop is left out
StopNotify_Missing(n) == n

\* signal.Stop(controlC): controlC receives no more signals (line 147)
StopNotify(n) == FALSE

\* the normal path: signal.Stop, then the bare return (lines 145-149)
RbcStop ==
    /\ Running /\ bpc = "rbc_stop"
    /\ notify' = StopNotify(notify)
    /\ bpc' = "rbc_defer"
    /\ Log("stop")
    /\ UNCHANGED <<proc, nprocs, tag, rootless, isBuildConfigSupported,
                   isImageRegistryInternal, err, primary, lpc, controlC, nintr, bc, secret, kpod>>
    /\ UNCHANGED <<stream, errOutput>>
    /\ UNCHANGED notBuild

\* a mutant of DeferredErr: the delete's error always replaces err
DeferredErr_Override(e, derr) == derr

\* if err == nil { err = derr } (lines 116-118)
DeferredErr(e, derr) == IF e = "nil" THEN derr ELSE e

\* the deferred function (lines 113-119): DeleteBuildConfig, then the result
\* is settled and runBuildConfig returns
RbcDefer ==
    /\ Running /\ bpc = "rbc_defer"
    /\ \E ok \in BOOLEAN :
          IF bc = "none"
          THEN err' = DeferredErr(err, "delete") /\ Log("defer.delete.notfound") /\ UNCHANGED bc
          ELSE IF ok
          THEN err' = DeferredErr(err, "nil") /\ Log("defer.delete") /\ bc' = "none"
          ELSE err' = DeferredErr(err, "delete") /\ Log("defer.delete.fail") /\ UNCHANGED bc
    /\ bpc' = "returned"
    /\ UNCHANGED <<proc, nprocs, tag, rootless, isBuildConfigSupported,
                   isImageRegistryInternal, primary, lpc, notify, controlC, nintr, secret, kpod>>
    /\ UNCHANGED <<stream, errOutput>>
    /\ UNCHANGED notBuild

(***************************************************************************)
(* terminateBuild: the goroutine started by runBuildConfig (lines 156-165) *)
(***************************************************************************)
\* <-c (line 157)
TerminateReceive ==
    /\ Running /\ lpc = "wait" /\ controlC > 0
    /\ controlC' = controlC - 1
    /\ lpc' = "delete"
    /\ Log("l.recv")
    /\ UNCHANGED <<proc, nprocs, bpc, tag, rootless, isBuildConfigSupported,
                   isImageRegistryInternal, err, primary, notify, nintr, bc, secret, kpod>>
    /\ UNCHANGED <<stream, errOutput>>
    /\ UNCHANGED notBuild

\* client.DeleteBuildConfig; its error is only logged (lines 160-163)
TerminateDelete ==
    /\ Running /\ lpc = "delete"
    /\ \E ok \in BOOLEAN :
          IF bc = "none"
          THEN Log("l.delete.notfound") /\ UNCHANGED bc
          ELSE IF ok
          THEN Log("l.delete") /\ bc' = "none"
          ELSE Log("l.delete.fail") /\ UNCHANGED bc
    /\ lpc' = "exit"
    /\ UNCHANGED <<proc, nprocs, bpc, tag, rootless, isBuildConfigSupported,
                   isImageRegistryInternal, err, primary, notify, controlC, nintr, secret, kpod>>
    /\ UNCHANGED <<stream, errOutput>>
    /\ UNCHANGED notBuild

\* os.Exit(0) (line 164)
TerminateExit ==
    /\ Running /\ lpc = "exit"
    /\ proc' = "exited"
    /\ lpc' = "done"
    /\ Log("l.exit")
    /\ UNCHANGED <<nprocs, bpc, tag, rootless, isBuildConfigSupported,
                   isImageRegistryInternal, err, primary, notify, controlC, nintr, bc, secret, kpod>>
    /\ UNCHANGED <<stream, errOutput>>
    /\ UNCHANGED notBuild

(***************************************************************************)
(* runKaniko: the pod-based strategy (lines 1093-1167)                     *)
(***************************************************************************)
\* a mutant of KanikoStep: a failed step is logged and the next one is taken
KanikoStep_GoOn(at, next, done, failed) ==
    /\ Running /\ bpc = at
    /\ \E ok \in BOOLEAN : bpc' = next /\ Log(IF ok THEN done ELSE failed) /\ UNCHANGED err
    /\ UNCHANGED <<proc, nprocs, tag, rootless, isBuildConfigSupported,
                   isImageRegistryInternal, primary, lpc, notify, controlC, nintr, bc, secret, kpod>>
    /\ UNCHANGED <<stream, errOutput>>
    /\ UNCHANGED notBuild

\* one step of runKaniko: it succeeds and goes on to next, or fails and returns
KanikoStep(at, next, done, failed) ==
    /\ Running /\ bpc = at
    /\ \E ok \in BOOLEAN :
          IF ok
          THEN bpc' = next /\ Log(done) /\ UNCHANGED err
          ELSE Return("kaniko") /\ Log(failed)
    /\ UNCHANGED <<proc, nprocs, tag, rootless, isBuildConfigSupported,
                   isImageRegistryInternal, primary, lpc, notify, controlC, nintr, bc, secret, kpod>>
    /\ UNCHANGED <<stream, errOutput>>
    /\ UNCHANGED notBuild

\* createKanikoBuilderPod (lines 1101-1103, 1169-1210): the pod carries the
\* component's name, so the request fails while such a pod exists
KanikoCreate ==
    /\ Running /\ bpc = "k_create"
    /\ \E ok \in BOOLEAN :
          IF ok /\ ~kpod
          THEN kpod' = TRUE /\ bpc' = "k_waitinit" /\ Log("pod.create") /\ UNCHANGED err
          ELSE Return("kaniko") /\ Log("pod.create.fail") /\ UNCHANGED kpod
    /\ UNCHANGED <<proc, nprocs, tag, rootless, isBuildConfigSupported,
                   isImageRegistryInternal, primary, lpc, notify, controlC, nintr, bc, secret>>
    /\ UNCHANGED <<stream, errOutput>>
    /\ UNCHANGED notBuild

\* WaitAndGetPodOnInitContainerStarted (lines 1110-1113)
KanikoWaitInit == KanikoStep("k_waitinit", "k_sync", "pod.initstarted", "pod.initstarted.fail")

\* SyncFilesBuild and ExtractProjectToComponent (lines 1124-1133)
KanikoTransfer == KanikoStep("k_sync", "k_touch", "pod.transfer", "pod.transfer.fail")

\* touch /tmp/complete in the init container (lines 1135-1144)
KanikoTouch == KanikoStep("k_touch", "k_wait", "pod.touch", "pod.touch.fail")

\* WaitAndGetPod(PodSucceeded) (lines 1148-1160): the builder writes its
\* output while odo waits; the pipe given to PipeStdOutput has no writer
\* (reader, _ := io.Pipe()), and the error quotes cmdOutput
KanikoWait ==
    /\ Running /\ bpc = "k_wait"
    /\ \E ok \in BOOLEAN, n \in BuildOutputs :
          IF ok
          THEN bpc' = "k_stop" /\ Log("pod.succeeded") /\ UNCHANGED <<err, stream, errOutput>>
          ELSE Return("kaniko") /\ Log("pod.succeeded.fail") /\ stream' = n /\ errOutput' = PipeStdOutput("", "")
    /\ UNCHANGED <<proc, nprocs, tag, rootless, isBuildConfigSupported,
                   isImageRegistryInternal, primary, lpc, notify, controlC, nintr, bc, secret, kpod>>
    /\ UNCHANGED notBuild

\* signal.Stop on a channel that was never registered, return nil (lines 1162-1166)
KanikoReturn ==
    /\ Running /\ bpc = "k_stop"
    /\ Return("nil")
    /\ UNCHANGED <<proc, nprocs, tag, rootless, isBuildConfigSupported,
                   isImageRegistryInternal, primary, lpc, notify, controlC, nintr, blog, bc, secret, kpod>>
    /\ UNCHANGED <<stream, errOutput>>
    /\ UNCHANGED notBuild

(***************************************************************************)
(* The process and its signals                                             *)
(***************************************************************************)
\* The user sends SIGINT or SIGTERM.  While a channel is registered the Go
\* runtime queues the signal in it without blocking (a full channel drops
\* it); with no channel registered the default action ends the process.
Interrupt ==
    /\ Running /\ bpc # "idle" /\ nintr < MaxInterrupts
    /\ nintr' = nintr + 1
    /\ IF notify
       THEN /\ controlC' = 1
            /\ Log(IF controlC = 0 THEN "intr" ELSE "intr.dropped")
            /\ UNCHANGED proc
       ELSE /\ proc' = "killed"
            /\ Log("intr.default")
            /\ UNCHANGED controlC
    /\ UNCHANGED <<nprocs, bpc, tag, rootless, isBuildConfigSupported,
                   isImageRegistryInternal, err, primary, lpc, notify, bc, secret, kpod>>
    /\ UNCHANGED <<stream, errOutput>>
    /\ UNCHANGED notBuild

\* Build has returned to the command, which ends the process
ProcessEnd ==
    /\ Running /\ bpc = "returned"
    /\ proc' = "ended"
    /\ UNCHANGED <<nprocs, bpc, tag, rootless, isBuildConfigSupported,
                   isImageRegistryInternal, err, primary, lpc, notify, controlC, nintr, blog, bc, secret, kpod>>
    /\ UNCHANGED <<stream, errOutput>>
    /\ UNCHANGED notBuild

\* odo is started again against the same cluster
NewProcess ==
    /\ ~Running /\ nprocs < MaxProcs
    /\ nprocs' = nprocs + 1
    /\ proc' = "running" /\ bpc' = "idle"
    /\ tag' = <<>> /\ rootless' = FALSE
    /\ isBuildConfigSupported' = FALSE /\ isImageRegistryInternal' = FALSE
    /\ err' = "nil" /\ primary' = "nil"
    /\ lpc' = "none" /\ notify' = FALSE /\ controlC' = 0 /\ nintr' = 0
    /\ blog' = <<>>
    /\ stream' = "" /\ errOutput' = ""
    /\ UNCHANGED <<bc, secret, kpod>>
    /\ UNCHANGED notBuild

Init == BuildIdle /\ TagIdle /\ ReconIdle /\ DeployIdle

Next ==
    \/ BuildStart \/ BuildProbe \/ BuildTag \/ BuildSecret \/ BuildSelect
    \/ RbcNotify \/ RbcCreate \/ RbcSync \/ RbcTrigger \/ RbcWait \/ RbcStop \/ RbcDefer
    \/ TerminateReceive \/ TerminateDelete \/ TerminateExit
    \/ KanikoCreate \/ KanikoWaitInit \/ KanikoTransfer \/ KanikoTouch \/ KanikoWait \/ KanikoReturn
    \/ Interrupt \/ ProcessEnd \/ NewProcess

Spec == Init /\ [][Next]_vars

\* Build with the pod-based strategy alone: the runs of Spec in which
\* runBuildConfig takes no step
NextKaniko ==
    \/ BuildStart \/ BuildProbe \/ BuildTag \/ BuildSecret \/ BuildSelect
    \/ KanikoCreate \/ KanikoWaitInit \/ KanikoTransfer \/ KanikoTouch \/ KanikoWait \/ KanikoReturn
    \/ Interrupt \/ ProcessEnd \/ NewProcess

SpecKaniko == Init /\ [][NextKaniko]_vars

(***************************************************************************)
(* isInternalRegistry applied to every tag of at most MaxTagLen tokens     *)
(***************************************************************************)
TagInit == tpc = "call" /\ ttag \in AllTags /\ tres = NoResult

TagCheck ==
    /\ tpc = "call"
    /\ tres' = isInternalRegistry(ttag)
    /\ tpc' = "done"
    /\ UNCHANGED ttag
    /\ UNCHANGED <<buildVars, reconVars, pushVars, deployVars>>

InitTag == BuildIdle /\ TagInit /\ ReconIdle /\ DeployIdle

NextTag == TagCheck

SpecTag == InitTag /\ [][NextTag]_vars

(***************************************************************************)
(* Push up to createOrUpdateComponent (lines 419-467, 568-729), Delete     *)
(* (lines 925-954) and the cluster's garbage collector                     *)
(***************************************************************************)
Req(op) == [op |-> op, ip |-> "", rv |-> 0, owner |-> 0]
RLog(r) == rlog' = Append(rlog, r)
Sent(op) == \E i \in 1..Len(rlog) : rlog[i].op = op

\* the names of the component's objects on the cluster
NamesOf(dep, svc, pv) ==
    (IF dep # 0 THEN {<<"Deployment", ComponentName>>} ELSE {})
    \cup (IF svc.live THEN {<<"Service", ComponentName>>} ELSE {})
    \cup {<<"PVC", p.name>> : p \in pv}

\* utils.ComponentExists: the component has a live Deployment
ComponentExists == deployment # 0

\* storage.GeneratePVCNameFromDevfileVol(vol.Name, componentName)
GeneratePVCName(vol) == <<vol, ComponentName>>

\* storage.GetExistingPVC: the name of the live PVC labelled with the
\* component and the volume, the empty name when there is none
GetExistingPVC(vol) ==
    IF \E p \in pvcs : p.vol = vol
    THEN (CHOOSE p \in pvcs : p.vol = vol).name
    ELSE <<>>

\* a mutant of PVCNameFor: the existing PVC's name is not used
PVCNameFor_AlwaysGenerated(vol) == GeneratePVCName(vol)

\* lines 619-632: the generated name, overwritten by the existing PVC's
PVCNameFor(vol) ==
    LET existingPVCName == GetExistingPVC(vol)
    IN  IF existingPVCName # <<>> THEN existingPVCName ELSE GeneratePVCName(vol)

\* the volume references of all containers, in the order the loops visit them
RECURSIVE VolumeRefs(_, _)
VolumeRefs(order, vols) ==
    IF order = <<>> THEN <<>> ELSE vols[Head(order)] \o VolumeRefs(Tail(order), vols)

\* a mutant of UniqueStorages: processedVolumes is not consulted
RECURSIVE UniqueStorages_NoDedup(_, _, _)
UniqueStorages_NoDedup(refs, processedVolumes, uniqueStorages) ==
    IF refs = <<>> THEN uniqueStorages
    ELSE UniqueStorages_NoDedup(Tail(refs), processedVolumes,
                                Append(uniqueStorages, [name |-> PVCNameFor(Head(refs)), vol |-> Head(refs)]))

\* the loops of lines 612-642: one storage per volume name not yet in processedVolumes
RECURSIVE UniqueStorages(_, _, _)
UniqueStorages(refs, processedVolumes, uniqueStorages) ==
    IF refs = <<>> THEN uniqueStorages
    ELSE IF Head(refs) \in processedVolumes
    THEN UniqueStorages(Tail(refs), processedVolumes, uniqueStorages)
    ELSE UniqueStorages(Tail(refs), processedVolumes \cup {Head(refs)},
                        Append(uniqueStorages, [name |-> PVCNameFor(Head(refs)), vol |-> Head(refs)]))

\* line 639: volumeNameToPVCName[vol.Name] = generatedPVCName, for every volume visited
VolumeNameToPVCName(refs) == {<<refs[i], PVCNameFor(refs[i])>> : i \in 1..Len(refs)}

\* no call is under way; a call that waits for the rollout ("reconcile" with
\* createOrUpdateComponent done) can be ended there and the program run again
Returned == {"idle", "returned", "crashed", "exited"}

\* the ways the start of Push can end (lines 420-461): the existence probe
\* fails; the pod of an existing component is not found (lines 435-441); the
\* init, build and run commands are not valid (lines 446-450); in debug mode
\* the debug command is not valid (lines 455-459); or all of it passes
PushStarts(exists) ==
    {"ok", "probe", "validate", "debug"} \cup (IF exists THEN {"pod.before"} ELSE {})

\* a mutant of StartFailed: the error is kept and Push goes on to createOrUpdateComponent
StartFailed_GoOn(res) == "names"

\* the return statements of lines 422, 439, 449 and 457: Push returns
\* before createOrUpdateComponent is called
StartFailed(res) == "done"

\* Push is called: the existence probe (lines 420-423), the pod of an
\* existing component and the validation of the commands (lines 435-461);
\* the devfile's component is the input of createOrUpdateComponent, read
\* when that is called
PushStart ==
    /\ rpc \in {"idle", "done"} /\ nops < MaxOps
    /\ ppc \in Returned \cup {"reconcile"}
    /\ nops' = nops + 1
    /\ \E res \in PushStarts(ComponentExists) :
       \E d \in (IF res = "ok" THEN DesiredComponents ELSE {NoPrev.desired}) :
          /\ desired' = d
          /\ componentExists' = (res # "probe" /\ ComponentExists)
          /\ rpc' = (IF res = "ok" THEN "names" ELSE StartFailed(res))
          /\ rerr' = (IF res = "ok" THEN "nil" ELSE res)
          /\ twice' = IF res = "ok" /\ prev.ok /\ prev.desired = d /\ ComponentExists
                      THEN [on |-> TRUE, names |-> prev.names]
                      ELSE NotTwice
          /\ ppc' = (IF rpc' = "done" THEN "returned" ELSE "reconcile")
          /\ perr' = (IF res = "ok" THEN "nil" ELSE res)
          /\ devfile' = (IF res = "debug" THEN [NoDevfile EXCEPT !.debug = TRUE] ELSE NoDevfile)
    /\ execRequired' = FALSE /\ events' = <<>> /\ xlog' = <<>>
    /\ rlog' = <<>> /\ storages' = <<>> /\ volumeNameToPVCName' = {} /\ depUid' = 0
    /\ found' = FALSE /\ oldSvc' = NoSvc /\ liveSvc' = FALSE
    /\ podChanged' = FALSE
    /\ UNCHANGED <<prev, deployment, nextUid, service, pvcs>>
    /\ UNCHANGED <<buildVars, tagVars, deployVars>>

\* a mutant of Abort: the error is kept and the call goes on to the storages
Abort_GoOn(e) == rpc' = "pvc" /\ rerr' = e

\* a step of createOrUpdateComponent fails: return err
Abort(e) == rpc' = "done" /\ rerr' = e

\* lines 602-648: the PVC name of every referenced volume; a failed lookup returns
ReconcileVolumes ==
    /\ rpc = "names"
    /\ \E order \in ContainerOrders, ok \in BOOLEAN :
          LET refs == VolumeRefs(order, desired.vols)
          IN  IF ok \/ refs = <<>>
              THEN /\ storages' = UniqueStorages(refs, {}, <<>>)
                   /\ volumeNameToPVCName' = VolumeNameToPVCName(refs)
                   /\ rpc' = "dep"
                   /\ rlog' = IF refs = <<>> THEN rlog ELSE Append(rlog, Req("pvc.lookup"))
                   /\ UNCHANGED rerr
              ELSE /\ Abort("pvc.lookup") /\ RLog(Req("pvc.lookup.fail"))
                   /\ UNCHANGED <<storages, volumeNameToPVCName>>
    /\ UNCHANGED <<nops, desired, componentExists, depUid, found, oldSvc, liveSvc,
                   prev, twice, deployment, nextUid, service, pvcs>>
    /\ UNCHANGED <<buildVars, tagVars, deployVars, pushVars>>

\* lines 665-671 and 703-706: UpdateDeployment when the component exists,
\* CreateDeployment when it does not; either returns the live Deployment
ReconcileDeployment ==
    /\ rpc = "dep"
    /\ \E ok \in BOOLEAN :
          IF componentExists
          THEN IF ok /\ deployment # 0
               THEN /\ depUid' = deployment
                    /\ rpc' = "svcget" /\ RLog(Req("dep.update"))
                    /\ UNCHANGED <<rerr, deployment, nextUid>>
               ELSE /\ Abort("dep.update") /\ RLog(Req("dep.update.fail"))
                    /\ UNCHANGED <<depUid, deployment, nextUid>>
          ELSE IF ok /\ deployment = 0
               THEN /\ deployment' = nextUid /\ nextUid' = nextUid + 1
                    /\ depUid' = nextUid
                    /\ rpc' = "svc" /\ RLog(Req("dep.create"))
                    /\ UNCHANGED rerr
               ELSE /\ Abort("dep.create") /\ RLog(Req("dep.create.fail"))
                    /\ UNCHANGED <<depUid, deployment, nextUid>>
    /\ UNCHANGED <<nops, desired, componentExists, storages, volumeNameToPVCName, found, oldSvc, liveSvc,
                   prev, twice, service, pvcs>>
    /\ UNCHANGED <<buildVars, tagVars, deployVars, pushVars>>

\* line 673: Services(namespace).Get(componentName); any error counts as
\* "no old service was found" (lines 677-678)
ReconcileServiceGet ==
    /\ rpc = "svcget"
    /\ \E ok \in BOOLEAN :
          IF ok /\ service.live
          THEN found' = TRUE /\ oldSvc' = service /\ RLog(Req("svc.get"))
          ELSE found' = FALSE /\ oldSvc' = NoSvc /\ RLog(Req("svc.get.fail"))
    /\ liveSvc' = (service.live)
    /\ rpc' = "svc"
    /\ UNCHANGED <<nops, desired, componentExists, storages, volumeNameToPVCName, depUid, rerr,
                   prev, twice, deployment, nextUid, service, pvcs>>
    /\ UNCHANGED <<buildVars, tagVars, deployVars, pushVars>>

\* a mutant of OwnerReference: no owner is named
OwnerReference_None(dep) == 0

\* lines 675-676 and 708-710: the owner reference names the Deployment that
\* the create or update returned
OwnerReference(dep) == dep

\* a mutant of ServiceOp: a new component gets no Service
ServiceOp_NoCreateForNew(exists, fnd, hasPorts) ==
    IF exists
    THEN IF ~fnd THEN (IF hasPorts THEN "create" ELSE "none")
         ELSE IF hasPorts THEN "update" ELSE "delete"
    ELSE "none"

\* a mutant of ServiceOp: the result of the lookup is not used
ServiceOp_AlwaysCreate(exists, fnd, hasPorts) == IF hasPorts THEN "create" ELSE "none"

\* a mutant of ServiceOp: a found Service with ports is deleted, one without is updated
ServiceOp_Swapped(exists, fnd, hasPorts) ==
    IF exists
    THEN IF ~fnd THEN (IF hasPorts THEN "create" ELSE "none")
         ELSE IF hasPorts THEN "delete" ELSE "update"
    ELSE IF hasPorts THEN "create" ELSE "none"

\* the branches of lines 665-719 that decide on the Service request
ServiceOp(exists, fnd, hasPorts) ==
    IF exists
    THEN IF ~fnd THEN (IF hasPorts THEN "create" ELSE "none")
         ELSE IF hasPorts THEN "update" ELSE "delete"
    ELSE IF hasPorts THEN "create" ELSE "none"

\* a mutant of UpdateRequest: the template's clusterIP is sent
UpdateRequest_TemplateIP(tmplIP, old, owner) ==
    [op |-> "svc.update", ip |-> tmplIP, rv |-> old.rv, owner |-> owner]

\* lines 674-676, 688-690: the update request carries the old Service's
\* clusterIP and resource version and the owner reference of the Deployment
UpdateRequest(tmplIP, old, owner) ==
    [op |-> "svc.update", ip |-> old.clusterIP, rv |-> old.rv, owner |-> owner]

\* lines 677-700 and 711-717: the Service request.  The cluster refuses a
\* create while a Service of that name lives, an update whose resource
\* version or clusterIP is not the live one, and a request on a missing Service.
ReconcileService ==
    /\ rpc = "svc"
    /\ LET op == ServiceOp(componentExists, found, desired.ports # {})
       IN  \E ok \in BOOLEAN, ip \in ClusterIPs, tmplIP \in TemplateIPs :
           CASE op = "create" ->
                  IF ok /\ ~service.live
                  THEN /\ service' = [live |-> TRUE, clusterIP |-> ip, rv |-> 1, owner |-> OwnerReference(depUid), ports |-> desired.ports]
                       /\ RLog([Req("svc.create") EXCEPT !.owner = OwnerReference(depUid)])
                       /\ rpc' = "pvc" /\ UNCHANGED rerr
                  ELSE /\ Abort("svc.create")
                       /\ RLog([Req("svc.create.fail") EXCEPT !.owner = OwnerReference(depUid)])
                       /\ UNCHANGED service
             [] op = "update" ->
                  LET req == UpdateRequest(tmplIP, oldSvc, OwnerReference(depUid))
                  IN  IF /\ ok /\ service.live
                         /\ req.rv = service.rv /\ req.ip = service.clusterIP
                      THEN /\ service' = [live |-> TRUE, clusterIP |-> service.clusterIP, rv |-> service.rv + 1,
                                          owner |-> req.owner, ports |-> desired.ports]
                           /\ RLog(req)
                           /\ rpc' = "pvc" /\ UNCHANGED rerr
                      ELSE /\ Abort("svc.update")
                           /\ RLog([req EXCEPT !.op = "svc.update.fail"])
                           /\ UNCHANGED service
             [] op = "delete" ->
                  IF ok /\ service.live
                  THEN /\ service' = NoSvc /\ RLog(Req("svc.delete"))
                       /\ rpc' = "pvc" /\ UNCHANGED rerr
                  ELSE /\ Abort("svc.delete") /\ RLog(Req("svc.delete.fail"))
                       /\ UNCHANGED service
             [] op = "none" ->
                  /\ rpc' = "pvc" /\ UNCHANGED <<rerr, rlog, service>>
    /\ liveSvc' = IF componentExists THEN liveSvc ELSE (service.live)
    /\ UNCHANGED <<nops, desired, componentExists, storages, volumeNameToPVCName, depUid, found, oldSvc,
                   prev, twice, deployment, nextUid, pvcs>>
    /\ UNCHANGED <<buildVars, tagVars, deployVars, pushVars>>

\* lines 721-728: stoAdapter.Create(uniqueStorages) creates, in order, the
\* PVCs that do not exist yet, owned by the Deployment; the first request
\* that fails ends it
ReconcileStorage ==
    /\ rpc = "pvc"
    /\ LET missing == SelectSeq(storages, LAMBDA st : ~\E p \in pvcs : p.name = st.name)
       IN  \E k \in 0..Len(missing) :
             /\ pvcs' = pvcs \cup {[name |-> missing[i].name, vol |-> missing[i].vol,
                                    owner |-> deployment] : i \in 1..k}
             /\ rlog' = rlog \o [i \in 1..k |-> Req("pvc.create")]
                             \o (IF k < Len(missing) THEN <<Req("pvc.create.fail")>> ELSE <<>>)
             /\ rerr' = IF k < Len(missing) THEN "pvc.create" ELSE "nil"
             /\ prev' = IF k < Len(missing) THEN [prev EXCEPT !.ok = FALSE]
                        ELSE [ok |-> TRUE, desired |-> desired,
                              names |-> NamesOf(deployment, service, pvcs')]
    /\ rpc' = "done"
    /\ UNCHANGED <<nops, desired, componentExists, storages, volumeNameToPVCName, depUid, found, oldSvc, liveSvc,
                   twice, deployment, nextUid, service>>
    /\ UNCHANGED <<buildVars, tagVars, deployVars, pushVars>>

\* what Delete does after the existence check (lines 929-943): "nil" and
\* "err" return at once with that result, "delete" goes on to the delete
DeleteDecision_ForbiddenDeletes(probe, exists) ==
    IF probe = "err" THEN "err" ELSE IF exists \/ probe = "forbidden" THEN "delete" ELSE "nil"

DeleteDecision(probe, exists) ==
    IF probe = "forbidden" THEN "nil"
    ELSE IF probe = "err" THEN "err"
    ELSE IF ~exists THEN "nil"
    ELSE "delete"

\* Adapter.Delete (lines 925-954): a forbidden existence check and a missing
\* component return nil without a delete; an existing one is deleted.  The
\* existence check is the first request in rlog
Delete ==
    /\ rpc \in {"idle", "done"} /\ nops < MaxOps
    /\ nops' = nops + 1
    /\ \E probe \in {"forbidden", "err", "ok"}, ok \in BOOLEAN :
          LET check == Req(IF probe = "forbidden" THEN "exists.forbidden"
                           ELSE IF probe = "err" THEN "exists.fail"
                           ELSE IF ComponentExists THEN "exists.yes" ELSE "exists.no")
              todo == DeleteDecision(probe, ComponentExists)
          IN  CASE todo = "nil" -> rerr' = "nil" /\ rlog' = <<check>> /\ UNCHANGED deployment
                [] todo = "err" -> rerr' = "probe" /\ rlog' = <<check>> /\ UNCHANGED deployment
                [] todo = "delete" ->
                     IF ok
                     THEN rerr' = "nil" /\ rlog' = <<check, Req("dep.delete")>> /\ deployment' = 0
                     ELSE rerr' = "dep.delete" /\ rlog' = <<check, Req("dep.delete.fail")>> /\ UNCHANGED deployment
    /\ rpc' = "done"
    /\ prev' = [prev EXCEPT !.ok = FALSE]
    /\ twice' = NotTwice
    /\ UNCHANGED <<desired, componentExists, storages, volumeNameToPVCName, depUid, found, oldSvc, liveSvc,
                   nextUid, service, pvcs>>
    /\ ppc' = "idle" /\ perr' = "nil"
    /\ execRequired' = FALSE /\ devfile' = NoDevfile /\ events' = <<>> /\ xlog' = <<>>
    /\ podChanged' = FALSE
    /\ UNCHANGED <<buildVars, tagVars, deployVars>>

\* the cluster's garbage collector removes a Service or a PVC whose owner,
\* a Deployment, is gone; an object without owner is left alone
GarbageCollect ==
    /\ \/ /\ service.live /\ service.owner # 0 /\ service.owner # deployment
          /\ service' = NoSvc /\ UNCHANGED pvcs
       \/ \E p \in pvcs :
          /\ p.owner # 0 /\ p.owner # deployment
          /\ pvcs' = pvcs \ {p} /\ UNCHANGED service
    /\ prev' = [prev EXCEPT !.ok = FALSE]
    /\ twice' = NotTwice
    /\ UNCHANGED <<rpc, nops, desired, componentExists, storages, volumeNameToPVCName, depUid, found, oldSvc,
                   rerr, rlog, liveSvc, deployment, nextUid>>
    /\ UNCHANGED <<buildVars, tagVars, deployVars, pushVars>>

\* a PVC that carries the labels of the component and of volume v1 under
\* another name than the generated one, and has no owner
LabelledPVC == [name |-> <<"v1", "nodejs-app">>, vol |-> "v1", owner |-> 0]

\* the namespace is empty or holds such a PVC
InitReconcile ==
    /\ BuildIdle /\ TagIdle /\ DeployIdle
    /\ rpc = "idle" /\ nops = 0
    /\ desired = NoPrev.desired
    /\ componentExists = FALSE
    /\ storages = <<>> /\ volumeNameToPVCName = {} /\ depUid = 0 /\ found = FALSE /\ oldSvc = NoSvc
    /\ rerr = "nil" /\ rlog = <<>> /\ liveSvc = FALSE
    /\ prev = NoPrev /\ twice = NotTwice
    /\ deployment = 0 /\ nextUid = 1 /\ service = NoSvc
    /\ pvcs \in {{}, {LabelledPVC}}
    /\ PushIdle

NextReconcile ==
    \/ PushStart \/ ReconcileVolumes \/ ReconcileDeployment \/ ReconcileServiceGet
    \/ ReconcileService \/ ReconcileStorage \/ Delete \/ GarbageCollect

SpecReconcile == InitReconcile /\ [][NextReconcile]_vars

(***************************************************************************)
(* Push after createOrUpdateComponent (lines 469-538), execDevfileEvent    *)
(* (lines 843-871) and execDevfile (lines 746-838)                         *)
(***************************************************************************)
\* the ids a composite command lists, in order
CompositeIds == <<"A", "B", "C">>
\* the postStart events a devfile can list
PostStartLists == {<<>>, <<"hook1">>, <<"hook1", "hook2">>}
\* the init or build command selected for the push: none, an exec or a composite command
CommandKinds == {"none", "exec", "composite"}
\* the run or debug command selected for the push
RunKinds == {"exec", "composite"}

\* a command executed in the pod: its group, the selected command or event
\* it belongs to, its id, the exec action and its result
Entry(g, of, c, a, ok) == [g |-> g, of |-> of, c |-> c, a |-> a, ok |-> ok]
Failed(entries) == \E i \in 1..Len(entries) : ~entries[i].ok

\* exec.ExecuteCompositeDevfileAction: the listed commands run in order; the
\* k-th fails (none when k = 0) and ends the composite
ExecuteCompositeDevfileAction(g, of, ids, k) ==
    [i \in 1..(IF k = 0 THEN Len(ids) ELSE k) |-> Entry(g, of, ids[i], "sync", i # k)]

\* the branches on command.Composite of lines 765-776, 785-796, 854-867:
\* a composite command goes to ExecuteCompositeDevfileAction, an exec command
\* to ExecuteDevfileCommandSynchronously
Dispatch(g, c, kind, k) ==
    IF kind = "composite" THEN ExecuteCompositeDevfileAction(g, c, CompositeIds, k)
    ELSE IF kind = "exec" THEN <<Entry(g, c, c, "sync", k = 0)>>
    ELSE <<>>

\* the ways a command of that kind can end: 0 is success, k the place of the failure
Outcomes(kind) ==
    IF kind = "composite" THEN 0..Len(CompositeIds)
    ELSE IF kind = "exec" THEN {0, 1} ELSE {0}

\* a mutant of OnError: the error of a command is dropped
OnError_GoOn(failed, next) == next

\* "if err != nil { return err }" after a command (lines 767-769, 773-775,
\* 787-789, 793-795, 856-858, 864-866)
OnError(failed, next) == IF failed THEN "returned" ELSE next

\* a mutant of AfterEvents: execDevfile is entered whatever the sync reported
AfterEvents_Always(required) == "init"

\* line 529: execDevfile is entered only if the sync reported that execution is required
AfterEvents(required) == IF required THEN "init" ELSE "returned"

\* lines 469-472: WaitForDeploymentRollout
PushRollout ==
    /\ ppc = "reconcile" /\ rpc = "done" /\ rerr = "nil"
    /\ \E ok \in BOOLEAN :
          IF ok THEN ppc' = "pod" /\ UNCHANGED perr
          ELSE ppc' = "returned" /\ perr' = "rollout"
    /\ UNCHANGED <<execRequired, devfile, events, xlog, podChanged>>
    /\ UNCHANGED <<buildVars, tagVars, deployVars, reconVars>>

\* lines 475-488: the running pod; a failure of ApplyConfig ends the
\* process.  The rollout may have replaced the pod of an existing
\* component: podChanged is set if its name is not the one read before
PushPod ==
    /\ ppc = "pod"
    /\ \E res \in {"ok", "pod", "config"}, replaced \in BOOLEAN :
          CASE res = "ok" -> /\ ppc' = "sync" /\ UNCHANGED perr
                             /\ podChanged' = (componentExists /\ replaced)
            [] res = "pod" -> ppc' = "returned" /\ perr' = "pod" /\ UNCHANGED podChanged
            [] res = "config" -> ppc' = "exited" /\ perr' = "config" /\ UNCHANGED podChanged
    /\ UNCHANGED <<execRequired, devfile, events, xlog>>
    /\ UNCHANGED <<buildVars, tagVars, deployVars, reconVars>>

\* a mutant of EventsToRun: the events run on every push
EventsToRun_Always(exists, postStartEvents) == postStartEvents

\* line 518: the postStart events are executed only if the component did not exist
EventsToRun(exists, postStartEvents) == IF ~exists THEN postStartEvents ELSE <<>>

\* syncAdapter.SyncFiles: execution is required for a new component; for an
\* existing one it depends on the pod and on the files
SyncFiles(exists) == IF exists THEN BOOLEAN ELSE {TRUE}

\* lines 491-518: the container with the source volume, SyncFiles, and the
\* devfile's postStart events
PushSync ==
    /\ ppc = "sync"
    /\ \E res \in {"ok", "source", "sync"}, required \in SyncFiles(componentExists),
          postStartEvents \in PostStartLists :
          IF res = "ok"
          THEN /\ execRequired' = required
               /\ devfile' = [devfile EXCEPT !.postStart = postStartEvents]
               /\ events' = EventsToRun(componentExists, postStartEvents)
               /\ ppc' = (IF events' # <<>> THEN "poststart" ELSE AfterEvents(required))
               /\ UNCHANGED perr
          ELSE /\ ppc' = "returned" /\ perr' = res
               /\ UNCHANGED <<execRequired, devfile, events>>
    /\ UNCHANGED <<xlog, podChanged>>
    /\ UNCHANGED <<buildVars, tagVars, deployVars, reconVars>>

\* execDevfileEvent, one turn of its loop (lines 846-869): the next event's
\* command is executed; its failure returns
PushPostStart ==
    /\ ppc = "poststart" /\ events # <<>>
    /\ \E kind \in {"exec", "composite"} : \E k \in Outcomes(kind) :
          LET done == Dispatch("postStart", Head(events), kind, k)
          IN  /\ xlog' = xlog \o done
              /\ events' = Tail(events)
              /\ ppc' = OnError(Failed(done), IF Tail(events) # <<>> THEN "poststart"
                                              ELSE AfterEvents(execRequired))
              /\ perr' = (IF Failed(done) THEN "postStart" ELSE perr)
    /\ UNCHANGED <<execRequired, devfile, podChanged>>
    /\ UNCHANGED <<buildVars, tagVars, deployVars, reconVars>>

\* a mutant of InitToRun: the Init command runs on every push
InitToRun_Always(exists, kind) == kind

\* line 760: the Init command is looked up only if the component did not exist
InitToRun(exists, kind) == IF ~exists THEN kind ELSE "unread"

\* execDevfile, lines 759-780: the Init command
ExecInit ==
    /\ ppc = "init"
    /\ \E selected \in CommandKinds :
          LET kind == InitToRun(componentExists, selected)
          IN  \E k \in Outcomes(kind) :
                 LET done == Dispatch("init", "init", kind, k)
                 IN  /\ devfile' = [devfile EXCEPT !.init = kind]
                     /\ xlog' = xlog \o done
                     /\ ppc' = OnError(Failed(done), "build")
                     /\ perr' = (IF Failed(done) THEN "init" ELSE perr)
    /\ UNCHANGED <<execRequired, events, podChanged>>
    /\ UNCHANGED <<buildVars, tagVars, deployVars, reconVars>>

\* execDevfile, lines 782-797: the Build command
ExecBuild ==
    /\ ppc = "build"
    /\ \E kind \in CommandKinds : \E k \in Outcomes(kind) :
          LET done == Dispatch("build", "build", kind, k)
          IN  /\ devfile' = [devfile EXCEPT !.build = kind]
              /\ xlog' = xlog \o done
              /\ ppc' = OnError(Failed(done), "run")
              /\ perr' = (IF Failed(done) THEN "build" ELSE perr)
    /\ UNCHANGED <<execRequired, events, podChanged>>
    /\ UNCHANGED <<buildVars, tagVars, deployVars, reconVars>>

\* a mutant of RunAction: only the command's restart attribute counts
RunAction_RestartOnly(exists, restartRequired) ==
    IF ~restartRequired THEN "norestart" ELSE "restart"

\* lines 819-833: the action without restart if the component existed and the
\* command needs no restart, the restarting action otherwise
RunAction(exists, restartRequired) ==
    IF exists /\ ~restartRequired THEN "norestart" ELSE "restart"

\* a mutant of StartSupervisord: supervisord is started on every push
StartSupervisord_Always(exists, isSupervisord) == ~isSupervisord

\* lines 810 and 894: supervisord is started if the component did not exist
\* and the container's command is not the supervisord binary
StartSupervisord(exists, isSupervisord) == ~exists /\ ~isSupervisord

\* execDevfile, lines 799-837: the Run or the Debug command.  A composite
\* command has no Exec, and line 818 reads command.Exec.Component.
ExecRun ==
    /\ ppc = "run"
    /\ \E isDebug \in BOOLEAN, kind \in RunKinds, restartRequired \in BOOLEAN,
          isSupervisord \in BOOLEAN, started \in BOOLEAN, ok \in BOOLEAN :
          LET g == IF isDebug THEN "debug" ELSE "run"
              start == StartSupervisord(componentExists, isSupervisord)
          IN  /\ devfile' = [devfile EXCEPT !.run = kind, !.debug = isDebug,
                                            !.restart = restartRequired,
                                            !.supervisord = isSupervisord]
              /\ IF kind = "composite"
                 THEN /\ xlog' = Append(xlog, Entry(g, g, g, "panic", FALSE))
                      /\ ppc' = "crashed" /\ perr' = "panic"
                      /\ UNCHANGED podChanged
                 ELSE IF start /\ ~started
                 THEN /\ xlog' = Append(xlog, Entry(g, g, g, "supervisord", FALSE))
                      /\ ppc' = "returned" /\ perr' = "supervisord"
                      /\ UNCHANGED podChanged
                 ELSE /\ xlog' = xlog
                                 \o (IF start THEN <<Entry(g, g, g, "supervisord", TRUE)>> ELSE <<>>)
                                 \o <<Entry(g, g, g, RunAction(componentExists, restartRequired), ok)>>
                      /\ ppc' = "returned"
                      /\ perr' = (IF ok THEN "nil" ELSE g)
                      /\ UNCHANGED podChanged
    /\ UNCHANGED <<execRequired, events>>
    /\ UNCHANGED <<buildVars, tagVars, deployVars, reconVars>>

\* Adapter.Test (lines 541-561) and execTestCmd (lines 874-888): the pod must
\* be running and the test command valid; the command is then executed
Test ==
    /\ rpc \in {"idle", "done"} /\ nops < MaxOps
    /\ ppc \in Returned \cup {"reconcile"}
    /\ nops' = nops + 1
    /\ \E res \in {"ok", "pod", "notrunning", "validate"}, kind \in {"exec", "composite"} :
          \E k \in Outcomes(kind) :
             LET done == IF res = "ok" THEN Dispatch("test", "test", kind, k) ELSE <<>>
             IN  /\ xlog' = done
                 /\ perr' = (IF res # "ok" THEN res ELSE IF Failed(done) THEN "test" ELSE "nil")
    /\ ppc' = "returned"
    /\ execRequired' = FALSE /\ devfile' = NoDevfile /\ events' = <<>>
    /\ UNCHANGED <<rpc, desired, componentExists, storages, volumeNameToPVCName, depUid,
                   found, oldSvc, rerr, rlog, liveSvc, prev, twice, deployment, nextUid,
                   service, pvcs>>
    /\ podChanged' = FALSE
    /\ UNCHANGED <<buildVars, tagVars, deployVars>>

NextPush ==
    \/ PushStart \/ ReconcileVolumes \/ ReconcileDeployment \/ ReconcileServiceGet
    \/ ReconcileService \/ ReconcileStorage
    \/ PushRollout \/ PushPod \/ PushSync \/ PushPostStart
    \/ ExecInit \/ ExecBuild \/ ExecRun \/ Test

SpecPush == Init /\ [][NextPush]_vars

\* One odo process runs one command, a Push up to the end of
\* createOrUpdateComponent or a Build that is not interrupted: what either
\* does before its first request that changes the cluster, and after
NextValidation ==
    \/ (bpc = "idle" /\ PushStart)
    \/ ReconcileVolumes \/ ReconcileDeployment \/ ReconcileServiceGet
    \/ ReconcileService \/ ReconcileStorage
    \/ (rpc = "idle" /\ BuildStart)
    \/ BuildProbe \/ BuildTag \/ BuildSecret \/ BuildSelect
    \/ RbcNotify \/ RbcCreate \/ RbcSync \/ RbcTrigger \/ RbcWait \/ RbcStop \/ RbcDefer
    \/ KanikoCreate \/ KanikoWaitInit \/ KanikoTransfer \/ KanikoTouch \/ KanikoWait \/ KanikoReturn

SpecValidation == Init /\ [][NextValidation]_vars

(***************************************************************************)
(* Deploy and DeployDelete (lines 199-415).  A manifest is a sequence of   *)
(* tokens: the delimiter "---", or the whole text between two delimiters.  *)
(* The variable manifest holds the manifest as far as the loop has read    *)
(* it: each turn of the loop draws the tokens up to the next delimiter.    *)
(***************************************************************************)
Delimiter == "---"
\* the texts: a Service, a Deployment, a Deployment whose template parses
\* but fails when it is executed, a text whose template does not parse, and
\* a text that describes no object
DocumentTexts == {"svc", "dep", "dep.exec", "tmpl", "junk"}
\* the texts without template actions
PlainTexts == {"svc", "dep", "junk"}

\* what may follow the part m of a manifest read so far: nothing more, or
\* the next document, empty or a text, with or without a delimiter after it
Extensions(m, texts) ==
    {ext \in {<<>>, <<Delimiter>>} \cup {<<t>> : t \in texts} \cup {<<t, Delimiter>> : t \in texts} :
        Len(m) + Len(ext) <= MaxManifestLen}

\* bytes.Split(manifest, "---") (lines 266, 390): the pieces between the
\* delimiters, empty pieces kept; the empty manifest is one empty piece
RECURSIVE BytesSplitFrom(_, _, _)
BytesSplitFrom(m, i, cur) ==
    IF i > Len(m) THEN <<cur>>
    ELSE IF m[i] = Delimiter THEN <<cur>> \o BytesSplitFrom(m, i + 1, <<>>)
    ELSE BytesSplitFrom(m, i + 1, Append(cur, m[i]))

BytesSplit(m) == BytesSplitFrom(m, 1, <<>>)

\* parameters.Tag after lines 227-239: the tag given, or the image
\* reference of the image stream
Image(isTagged) == IF isTagged THEN "tag" ELSE "imagestream.image"

\* a mutant of substitueYamlVariables: the error of tmpl.Execute is returned
substitueYamlVariables_ExecuteChecked(baseYaml, image) ==
    IF baseYaml \in {<<"tmpl">>, <<"dep.exec">>}
    THEN [err |-> TRUE, text |-> <<>>, image |-> ""]
    ELSE [err |-> FALSE, text |-> baseYaml, image |-> image]

\* substitueYamlVariables (lines 199-213): a template that does not parse
\* is an error; the error of tmpl.Execute is dropped (line 210) and what
\* was written before the failing action, a cut text, is returned
substitueYamlVariables(baseYaml, image) ==
    IF baseYaml = <<"tmpl">> THEN [err |-> TRUE, text |-> <<>>, image |-> ""]
    ELSE IF baseYaml = <<"dep.exec">> THEN [err |-> FALSE, text |-> <<"dep.cut">>, image |-> image]
    ELSE [err |-> FALSE, text |-> baseYaml, image |-> image]

\* yamlDecoder.Decode (lines 275-278, 393-396): the kind of the object the
\* text describes; the empty text and a text without a kind are errors
Decode(text) ==
    IF text = <<"svc">> THEN [ok |-> TRUE, kind |-> "Service", cut |-> FALSE]
    ELSE IF text = <<"dep">> THEN [ok |-> TRUE, kind |-> "Deployment", cut |-> FALSE]
    ELSE IF text = <<"dep.cut">> THEN [ok |-> TRUE, kind |-> "Deployment", cut |-> TRUE]
    ELSE [ok |-> FALSE, kind |-> "", cut |-> FALSE]

\* a request of the call: a lookup, a mutation with the fields of the
\* object it carries, or a read or update of the image stream
DReq(op, d) ==
    [op |-> op, doc |-> d, kind |-> "", rv |-> 0, ann |-> "", ip |-> "", image |-> "", cut |-> FALSE]

\* deploymentManifest after Decode (lines 275-296): the object of the text,
\* with the annotations of the template and no resourceVersion or clusterIP
Desired(dec, image) ==
    [kind |-> dec.kind, rv |-> 0, ann |-> "template", ip |-> "", image |-> image, cut |-> dec.cut]

\* a mutant of CopyLiveFields: the clusterIP is not copied
CopyLiveFields_NoClusterIP(obj, item) == [obj EXCEPT !.rv = item.rv, !.ann = item.ann]

\* lines 303-315: resourceVersion and annotations of the live object, and
\* of a live Service its clusterIP unless that is empty
CopyLiveFields(obj, item) ==
    [obj EXCEPT !.rv = item.rv, !.ann = item.ann,
                !.ip = IF obj.kind = "Service" /\ item.ip # "" THEN item.ip ELSE @]

\* a mutant of Mutation: the object is always created
Mutation_AlwaysCreate(instanceFound) == "create"

\* lines 323-328: Create if the lookup did not return the object, else Update
Mutation(instanceFound) == IF instanceFound THEN "update" ELSE "create"

\* the separator and an object in .odo/manifest.yaml
Separator == [kind |-> Delimiter, rv |-> 0]

\* the clusterIP the cluster gives to a Service created without one
AssignedIP == "10.0.0.9"

\* the live object after the cluster has accepted the request
Stored(request, item, op) ==
    [live |-> TRUE, rv |-> item.rv + 1, ann |-> request.ann,
     ip |-> IF op = "create" /\ request.kind = "Service" THEN AssignedIP ELSE request.ip]

\* a mutant of AppendOwnerReference: the reference is not appended
AppendOwnerReference_None(is, kind) == is

\* lines 335-344: the image stream, if there is one, gets an owner
\* reference that names the object the cluster returned
AppendOwnerReference(is, kind) ==
    IF is.set THEN [is EXCEPT !.refs = Append(@, kind)] ELSE is

\* a mutant of WriteManifest: the separator is written before every object
WriteManifest_SeparatorAlways(file, written, result) == file \o <<Separator, result>>

\* lines 346-357: the separator unless this is the first object written,
\* then the object the cluster returned
WriteManifest(file, written, result) ==
    file \o (IF written THEN <<Separator>> ELSE <<>>) \o <<result>>

\* a mutant of NotFound: the error of the lookup is ignored
NotFound_Ignored(item, getOk) == FALSE

\* lines 402-406: DeployDelete takes any error of the lookup as "not found"
NotFound(item, getOk) == ~(item.live /\ getOk)

DeployReturn(e) == dpc' = "returned" /\ deployErr' = e

\* Deploy up to the loop (lines 216-266): the client, the image stream of
\* an empty tag, and the local manifest file, which os.Create truncates
DeployStart ==
    /\ dpc \in {"idle", "returned"} /\ ndeploys < MaxDeploys
    /\ ndeploys' = ndeploys + 1
    /\ \E t \in BOOLEAN, fail \in {"none", "client", "is.get", "isi.get", "file"} :
          /\ t => fail \notin {"is.get", "isi.get"}
          /\ manifest' = <<>> /\ tagged' = t /\ di' = 1 /\ writtenToManifest' = FALSE
          /\ dlog' = <<DReq("Deploy", 0)>> \o
                     (IF t \/ fail = "client" THEN <<>>
                      ELSE IF fail = "is.get" THEN <<DReq("is.get.fail", 0)>>
                      ELSE IF fail = "isi.get" THEN <<DReq("is.get", 0), DReq("isi.get.fail", 0)>>
                      ELSE <<DReq("is.get", 0), DReq("isi.get", 0)>>)
          /\ imageStream' = IF ~t /\ fail \notin {"client", "is.get"}
                            THEN [set |-> TRUE, refs |-> streamRefs]
                            ELSE NoImageStream
          /\ IF fail = "none"
             THEN manifestFile' = <<>> /\ dpc' = "doc" /\ deployErr' = "nil"
             ELSE DeployReturn(fail) /\ UNCHANGED manifestFile
    /\ UNCHANGED <<cluster, streamRefs>>
    /\ UNCHANGED <<buildVars, tagVars, reconVars, pushVars>>

\* one turn of Deploy's loop (lines 267-359): an empty document is skipped;
\* another is substituted, decoded, looked up, created or updated, and the
\* object the cluster returned is written to the local manifest file
DeployDocument ==
    /\ dpc = "doc"
    /\ \E ext \in Extensions(manifest, DocumentTexts) : manifest' = manifest \o ext
    /\ LET manifests == BytesSplit(manifest')
           doc == manifests[di]
           sub == substitueYamlVariables(doc, Image(tagged))
           dec == Decode(sub.text)
           goOn == /\ di' = di + 1
                   /\ dpc' = IF di = Len(manifests) THEN "finish" ELSE "doc"
                   /\ UNCHANGED deployErr
       IN  IF Len(doc) = 0
           THEN goOn /\ UNCHANGED <<imageStream, writtenToManifest, manifestFile, cluster, dlog>>
           ELSE IF sub.err
           THEN /\ DeployReturn("substitute")
                /\ UNCHANGED <<di, imageStream, writtenToManifest, manifestFile, cluster, dlog>>
           ELSE IF ~dec.ok
           THEN /\ DeployReturn("decode")
                /\ UNCHANGED <<di, imageStream, writtenToManifest, manifestFile, cluster, dlog>>
           ELSE \E getOk \in BOOLEAN, ok \in BOOLEAN, w \in {"written", "separator", "encode"} :
                LET item == cluster[dec.kind]
                    instanceFound == item.live /\ getOk
                    obj == Desired(dec, sub.image)
                    request == IF instanceFound THEN CopyLiveFields(obj, item) ELSE obj
                    op == Mutation(instanceFound)
                    applied == ok /\ (op = "update" <=> item.live)
                    lookup == [DReq(IF instanceFound THEN "get" ELSE "get.fail", di) EXCEPT !.kind = dec.kind]
                    sent == request @@ [op |-> IF applied THEN op ELSE op \o ".fail", doc |-> di]
                    result == [kind |-> dec.kind, rv |-> item.rv + 1]
                IN  /\ w = "separator" => writtenToManifest
                    /\ dlog' = dlog \o <<lookup, sent>>
                    /\ IF ~applied
                       THEN /\ DeployReturn("apply")
                            /\ UNCHANGED <<di, imageStream, writtenToManifest, manifestFile, cluster>>
                       ELSE /\ cluster' = [cluster EXCEPT ![dec.kind] = Stored(request, item, op)]
                            /\ imageStream' = AppendOwnerReference(imageStream, result.kind)
                            /\ IF w = "written"
                               THEN /\ manifestFile' = WriteManifest(manifestFile, writtenToManifest, result)
                                    /\ writtenToManifest' = TRUE
                                    /\ goOn
                               ELSE /\ manifestFile' = IF w = "encode" /\ writtenToManifest
                                                       THEN Append(manifestFile, Separator)
                                                       ELSE manifestFile
                                    /\ DeployReturn("write")
                                    /\ UNCHANGED <<di, writtenToManifest>>
    /\ UNCHANGED <<ndeploys, tagged, streamRefs>>
    /\ UNCHANGED <<buildVars, tagVars, reconVars, pushVars>>

\* Deploy after the loop (lines 361-383, 259-264): the image stream is
\* updated, a missing application URL is only a warning, and the deferred
\* Close gives its error to a Deploy that had none
DeployFinish ==
    /\ dpc = "finish"
    /\ \E ok \in BOOLEAN, closeOk \in BOOLEAN :
          IF imageStream.set /\ ~ok
          THEN /\ DeployReturn("imagestream")
               /\ dlog' = Append(dlog, DReq("is.update.fail", 0))
               /\ UNCHANGED streamRefs
          ELSE /\ DeployReturn(IF closeOk THEN "nil" ELSE "close")
               /\ IF imageStream.set
                  THEN streamRefs' = imageStream.refs /\ dlog' = Append(dlog, DReq("is.update", 0))
                  ELSE UNCHANGED <<streamRefs, dlog>>
    /\ UNCHANGED <<ndeploys, manifest, di, tagged, imageStream, writtenToManifest, manifestFile, cluster>>
    /\ UNCHANGED <<buildVars, tagVars, reconVars, pushVars>>

\* DeployDelete is called (lines 386-390)
DeployDeleteStart ==
    /\ dpc \in {"idle", "returned"} /\ ndeploys < MaxDeploys
    /\ ndeploys' = ndeploys + 1
    /\ manifest' = <<>>
    /\ di' = 1 /\ dpc' = "del" /\ deployErr' = "nil"
    /\ dlog' = <<DReq("DeployDelete", 0)>>
    /\ UNCHANGED <<tagged, imageStream, writtenToManifest, manifestFile, cluster, streamRefs>>
    /\ UNCHANGED <<buildVars, tagVars, reconVars, pushVars>>

\* if len(manifest) > 0 (line 392): the length of the whole manifest, not of
\* the document, decides whether the document is processed
Processed(wholeManifest, splitManifest) == Len(wholeManifest) > 0

\* one turn of DeployDelete's loop (lines 391-412): decode, look the object
\* up, delete it; any lookup error is reported as "not found"
DeployDeleteDocument ==
    /\ dpc = "del"
    /\ \E ext \in Extensions(manifest, PlainTexts) : manifest' = manifest \o ext
    /\ LET manifests == BytesSplit(manifest')
           splitManifest == manifests[di]
           dec == Decode(splitManifest)
           goOn == /\ di' = di + 1
                   /\ dpc' = IF di = Len(manifests) THEN "returned" ELSE "del"
                   /\ UNCHANGED deployErr
       IN  IF ~Processed(manifest', splitManifest)
           THEN goOn /\ UNCHANGED <<cluster, dlog>>
           ELSE IF ~dec.ok
           THEN DeployReturn("decode") /\ UNCHANGED <<di, cluster, dlog>>
           ELSE \E getOk \in BOOLEAN, ok \in BOOLEAN :
                LET item == cluster[dec.kind]
                    sent(o) == [DReq(o, di) EXCEPT !.kind = dec.kind]
                    lookup == sent(IF item.live /\ getOk THEN "get" ELSE "get.fail")
                IN  IF NotFound(item, getOk)
                    THEN /\ DeployReturn("not found")
                         /\ dlog' = Append(dlog, lookup)
                         /\ UNCHANGED <<di, cluster>>
                    ELSE IF ~(ok /\ item.live)
                    THEN /\ DeployReturn("delete")
                         /\ dlog' = dlog \o <<lookup, sent("delete.fail")>>
                         /\ UNCHANGED <<di, cluster>>
                    ELSE /\ goOn
                         /\ dlog' = dlog \o <<lookup, sent("delete")>>
                         /\ cluster' = [cluster EXCEPT ![dec.kind] = NoObject]
    /\ UNCHANGED <<ndeploys, tagged, imageStream, writtenToManifest, manifestFile, streamRefs>>
    /\ UNCHANGED <<buildVars, tagVars, reconVars, pushVars>>

\* a Service with or without a clusterIP and a Deployment that are live
\* before the first call, with annotations the cluster has added
LiveBefore(k) ==
    {NoObject} \cup {[live |-> TRUE, rv |-> 1, ann |-> "live", ip |-> a] :
                        a \in IF k = "Service" THEN {"10.0.0.1", ""} ELSE {""}}

\* what an earlier Deploy of a Deployment has left in .odo/manifest.yaml
\* and in the owner references of the image stream
EarlierManifestFile == <<[kind |-> "Deployment", rv |-> 1]>>
EarlierStreamRefs == <<"Deployment">>

InitDeploy ==
    /\ BuildIdle /\ TagIdle /\ ReconIdle
    /\ DeployCallIdle
    /\ manifestFile \in {<<>>, EarlierManifestFile}
    /\ streamRefs \in {<<>>, EarlierStreamRefs}
    /\ cluster \in {c \in [Kinds -> UNION {LiveBefore(k) : k \in Kinds}] : \A k \in Kinds : c[k] \in LiveBefore(k)}

NextDeploy ==
    \/ DeployStart \/ DeployDocument \/ DeployFinish
    \/ DeployDeleteStart \/ DeployDeleteDocument

SpecDeploy == InitDeploy /\ [][NextDeploy]_vars

(***************************************************************************)
(* Claims about Build                                                      *)
(***************************************************************************)
\* the in-cluster strategy has acted: its first step registers the listener
RanBuildConfig == Has("notify")
\* the pod-based strategy has acted: its first step asks for the builder pod
RanKaniko == Has("pod.create") \/ Has("pod.create.fail")
\* the deferred function of runBuildConfig has sent its delete request
DeferDeleteIssued ==
    Has("defer.delete") \/ Has("defer.delete.fail") \/ Has("defer.delete.notfound")
\* a tag whose first '/'-segment is the internal registry host
TargetsInternal(t) == Len(t) >= 2 /\ t[1] = internalRegistryHost /\ t[2] = "/"
\* the number of separators of a tag
Slashes(t) == Cardinality({i \in 1..Len(t) : t[i] = "/"})

\* C1: an interrupt that reaches the listener before the build has completed
\* leaves no BuildConfig behind once the process has terminated, also when
\* every delete request that found the BuildConfig succeeded.
C1_InterruptLeavesNoBuildObject ==
    ( /\ proc # "running"
      /\ Has("intr")
      /\ (Has("wait.ok") => First("intr") < First("wait.ok"))
      /\ ~Has("l.delete.fail") /\ ~Has("defer.delete.fail") )
    => bc = "none"

\* C2 as stated: when runBuildConfig returns after having created the
\* BuildConfig, it has issued the delete and the BuildConfig is gone.
C2_BuildObjectNeverOutlives ==
    (bpc = "returned" /\ Has("bc.create")) => (DeferDeleteIssued /\ bc = "none")

\* C2 as amended: when runBuildConfig returns after having created the
\* BuildConfig, it has issued the delete, and the BuildConfig is still there
\* only if that delete request failed.
C2_DeleteIssuedOnEveryReturn ==
    (bpc = "returned" /\ Has("bc.create"))
    => (DeferDeleteIssued /\ (bc # "none" => Has("defer.delete.fail")))

C2_Witness ==
    bpc = "returned" /\ Has("bc.create") /\ Has("wait.fail") /\ Has("defer.delete") /\ bc = "none"

\* C3: runBuildConfig returns the build's own error whenever there is one; the
\* error of the deferred delete is returned only when the build had none.
C3_PrimaryErrorWins ==
    (bpc = "returned" /\ RanBuildConfig)
    => ( /\ primary # "nil" => err = primary
         /\ err = "delete" => primary = "nil" )

C3_Witness ==
    bpc = "returned" /\ primary = "wait" /\ Has("defer.delete.fail") /\ err = "wait"

\* C4: the listener is registered before the create request is sent, and
\* every signal the listener receives was queued before signal.Stop: after
\* the normal path has deregistered the channel no interrupt reaches it.
C4_NoStaleCleanup ==
    /\ \A j \in 1..Len(blog) :
          blog[j] \in {"bc.create", "bc.create.fail"} =>
             \E i \in 1..(j-1) : blog[i] = "notify"
    /\ \A j \in 1..Len(blog) :
          blog[j] \in {"intr", "intr.dropped"} =>
             \A i \in 1..(j-1) : blog[i] # "stop"
    /\ \A j \in 1..Len(blog) :
          blog[j] = "l.recv" =>
             \E i \in 1..(j-1) : blog[i] = "intr" /\ \A k \in 1..(i-1) : blog[k] # "stop"

\* an interrupt arrived after the normal path's signal.Stop and the listener
\* neither deleted anything nor ended the process
C4_Witness ==
    /\ \E i, j \in 1..Len(blog) : i < j /\ blog[i] = "stop" /\ blog[j] = "intr.default"
    /\ lpc = "wait"

\* C5: Build runs at most one strategy, the in-cluster one only when the
\* cluster supports BuildConfig and rootless was not asked for, the pod-based
\* one only otherwise; a Build that got past the secret has run exactly one.
C5_OneStrategyAsSelected ==
    /\ ~(RanBuildConfig /\ RanKaniko)
    /\ Count("notify") <= 1
    /\ Count("pod.create") + Count("pod.create.fail") <= 1
    /\ RanBuildConfig => (isBuildConfigSupported /\ ~rootless)
    /\ RanKaniko => ~(isBuildConfigSupported /\ ~rootless)
    /\ (bpc = "returned" /\ err \notin {"clientErr", "supportedErr", "tagErr", "secretErr"})
          => (RanBuildConfig \/ RanKaniko)

C5_Witness ==
    bpc = "returned" /\ RanKaniko /\ isBuildConfigSupported /\ rootless

\* C6: a request to create the secret is sent only for a tag that does not
\* target the internal registry; when a strategy runs, the secret was created
\* if and only if the tag does not target the internal registry, and before
\* the strategy's first step; after a failed creation no strategy runs.
C6_SecretBeforeStrategy ==
    /\ (Has("secret.create") \/ Has("secret.create.fail") \/ Has("secret.file.fail"))
          => ~TargetsInternal(tag)
    /\ (RanBuildConfig \/ RanKaniko) => (Has("secret.create") <=> ~TargetsInternal(tag))
    /\ \A j \in 1..Len(blog) :
          (blog[j] \in {"notify", "pod.create", "pod.create.fail"} /\ Has("secret.create"))
             => First("secret.create") < j
    /\ (Has("secret.create.fail") \/ Has("secret.file.fail")) => ~(RanBuildConfig \/ RanKaniko)

C6_Witness ==
    Has("secret.create") /\ Has("bc.create") /\ ~TargetsInternal(tag)

\* C7: isInternalRegistry rejects a tag unless it has exactly two separators
\* (three segments), and classifies an accepted tag as internal exactly when
\* its first segment is the internal registry host.
C7_ThreeSegments ==
    tpc = "done" =>
       /\ tres.err <=> Slashes(ttag) # 2
       /\ tres.internal <=> (Slashes(ttag) = 2 /\ TargetsInternal(ttag))

C7_Witness ==
    /\ tpc = "done"
    /\ ttag = <<internalRegistryHost, "/", "myrepo", "/", "app:latest">>
    /\ tres = [internal |-> TRUE, err |-> FALSE]

(***************************************************************************)
(* Claims about createOrUpdateComponent                                    *)
(***************************************************************************)
Names == NamesOf(deployment, service, pvcs)

\* this call has got past its Service step (the request may have failed)
ServiceDecided ==
    \/ rpc = "pvc"
    \/ /\ rpc = "done"
       /\ Sent("dep.create") \/ Sent("dep.update")
       /\ rerr \in {"nil", "pvc.create", "svc.create", "svc.update", "svc.delete"}

\* the Service request this call sent
ServiceRequest ==
    IF Sent("svc.create") \/ Sent("svc.create.fail") THEN "create"
    ELSE IF Sent("svc.update") \/ Sent("svc.update.fail") THEN "update"
    ELSE IF Sent("svc.delete") \/ Sent("svc.delete.fail") THEN "delete"
    ELSE "none"

C9_UpdateCarriesLiveFields ==
    \A i \in 1..Len(rlog) :
       /\ rlog[i].op \in {"svc.update", "svc.update.fail"} =>
             /\ rlog[i].ip \in ClusterIPs
             /\ rlog[i].ip = oldSvc.clusterIP /\ rlog[i].rv = oldSvc.rv
       /\ (rlog[i].op = "svc.update" /\ service.live) =>
             (rlog[i].ip = service.clusterIP /\ rlog[i].rv + 1 = service.rv)
       /\ (rlog[i].op = "svc.update.fail" /\ service.live) =>
             (rlog[i].ip = service.clusterIP /\ rlog[i].rv = service.rv)

C9_Witness ==
    /\ Sent("svc.update") /\ service.live
    /\ service.clusterIP = "10.0.0.5" /\ service.rv = 2
    /\ \E i \in 1..Len(rlog) : rlog[i].op = "svc.update" /\ rlog[i].ip = "10.0.0.5"

Referenced(d) == UNION {{d.vols[c][i] : i \in 1..Len(d.vols[c])} : c \in Containers}

\* volumes the devfile can declare; v3 is mounted by no container
DeclaredVolumes == {"v1", "v2", "v3"}

\* createOrUpdateComponent has bound the volumes and not returned yet
VolumesBound == rpc \in {"dep", "svcget", "svc", "pvc"}

\* C11: exactly one PVC binding per distinct volume name that a container
\* mounts, however many containers mount it, and none for any other volume.
C11_OneBindingPerVolume ==
    VolumesBound =>
       /\ Referenced(desired) \subseteq DeclaredVolumes
       /\ {storages[i].vol : i \in 1..Len(storages)} = Referenced(desired)
       /\ Len(storages) = Cardinality(Referenced(desired))
       /\ {b[1] : b \in volumeNameToPVCName} = Referenced(desired)
       /\ Cardinality(volumeNameToPVCName) = Cardinality(Referenced(desired))

C11_Witness ==
    /\ rpc = "dep"
    /\ desired.vols["runtime"] = <<"v1">> /\ desired.vols["tools"] = <<"v1">>
    /\ Len(storages) = 1 /\ storages[1].vol = "v1"

\* C12: the step that binds the volumes gives each mounted volume the name
\* of the live PVC labelled for it when there is one, else the generated
\* name, and puts that one name both in the mapping mounted into the pod
\* template and in the storages handed to the storage adapter.
C12_BoundNameReusesLivePVC ==
    [][(rpc = "names" /\ rpc' = "dep") =>
         \A v \in Referenced(desired) :
            LET live == {p \in pvcs : p.vol = v}
                name == IF live # {} THEN (CHOOSE p \in live : TRUE).name
                        ELSE <<v, ComponentName>>
            IN  /\ <<v, name>> \in volumeNameToPVCName'
                /\ \A b \in volumeNameToPVCName' : b[1] = v => b[2] = name
                /\ \E i \in 1..Len(storages') : storages'[i] = [name |-> name, vol |-> v]
                /\ \A i \in 1..Len(storages') : storages'[i].vol = v => storages'[i].name = name]_vars

C12_Witness ==
    /\ rpc = "dep" /\ LabelledPVC \in pvcs
    /\ storages = << [name |-> LabelledPVC.name, vol |-> "v1"],
                     [name |-> <<"v2", ComponentName>>, vol |-> "v2"] >>
    /\ volumeNameToPVCName = {<<"v1", LabelledPVC.name>>, <<"v2", <<"v2", ComponentName>>>>}

\* the requests whose failure createOrUpdateComponent returns
ReturnedFailures ==
    {"pvc.lookup.fail", "dep.create.fail", "dep.update.fail",
     "svc.create.fail", "svc.update.fail", "svc.delete.fail", "pvc.create.fail"}

\* what this call has changed on the cluster is still there
NothingRolledBack ==
    /\ (Sent("dep.create") \/ Sent("dep.update")) => deployment = depUid
    /\ Sent("svc.create") => (service.live /\ service.owner = depUid)
    /\ Sent("svc.delete") => ~service.live
    /\ Cardinality({i \in 1..Len(rlog) : rlog[i].op = "pvc.create"})
          <= Cardinality({p \in pvcs : p.owner = deployment})

C14_ServiceOwnedByDeployment ==
    \A i \in 1..Len(rlog) :
       rlog[i].op \in {"svc.create", "svc.create.fail", "svc.update", "svc.update.fail"} =>
          /\ depUid # 0 /\ depUid = deployment
          /\ rlog[i].owner = depUid
          /\ \E j \in 1..(i-1) : rlog[j].op \in {"dep.create", "dep.update"}
          /\ (rlog[i].op \in {"svc.create", "svc.update"} /\ service.live) =>
                service.owner = deployment

C14_Witness ==
    /\ rpc = "pvc" /\ componentExists /\ Sent("svc.update")
    /\ service.live /\ service.owner = deployment /\ deployment # 0

(***************************************************************************)
(* Claims about Push, execDevfileEvent and execDevfile                     *)
(***************************************************************************)
\* the places in xlog of the commands of the given groups
Ran(groups) == {i \in 1..Len(xlog) : xlog[i].g \in groups}
\* the places in xlog of the Run and Debug dispatches proper
RunDispatches == {i \in 1..Len(xlog) : xlog[i].a \in {"restart", "norestart"}}
\* how often this call sent the request op
Requests(op) == Cardinality({i \in 1..Len(rlog) : rlog[i].op = op})
\* the place of an event in the devfile's list
EventPlace(e) == CHOOSE n \in 1..Len(devfile.postStart) : devfile.postStart[n] = e

\* the first Push, onto an empty namespace, of the devfile with one port, no
\* volume, no postStart event, no Init command and an exec Run command, has
\* returned nil
FirstPushOfPlainDevfile ==
    /\ nops = 1 /\ ppc = "returned" /\ perr = "nil" /\ Sent("dep.create")
    /\ desired = [ports |-> {3000}, vols |-> [runtime |-> <<>>, tools |-> <<>>]]
    /\ devfile.postStart = <<>> /\ devfile.init = "none"
    /\ devfile.run = "exec" /\ ~devfile.debug

\* C15: such a first Push sends exactly one Deployment create and no update,
\* exactly one Service create, no PVC create, and dispatches Run exactly
\* once, Init and postStart never.
C15_FirstPushEndToEnd ==
    FirstPushOfPlainDevfile =>
       /\ Requests("dep.create") = 1 /\ ~Sent("dep.update") /\ ~Sent("dep.update.fail")
       /\ Requests("svc.create") = 1 /\ ~Sent("svc.update") /\ ~Sent("svc.delete")
       /\ ~Sent("pvc.create") /\ pvcs = {}
       /\ deployment # 0 /\ service.live /\ service.ports = {3000}
       /\ Cardinality(RunDispatches) = 1
       /\ \A i \in RunDispatches : xlog[i].g = "run"
       /\ Ran({"init", "postStart", "debug"}) = {}

C15_Witness ==
    /\ FirstPushOfPlainDevfile /\ devfile.build = "none"
    /\ Len(xlog) = 2 /\ xlog[1].a = "supervisord" /\ xlog[2].a = "restart"

\* C16: Init is dispatched only if the component did not exist, and then
\* whenever one is selected; Build is dispatched whenever one is selected,
\* whether the component existed or not; only one of Run and Debug is
\* dispatched, Debug exactly in debug mode.
C16_GroupsDispatched ==
    /\ Ran({"init"}) # {} => ~componentExists
    /\ (~componentExists /\ devfile.init \in {"exec", "composite"}) => Ran({"init"}) # {}
    /\ componentExists => devfile.init = "unread"
    /\ devfile.build \in {"exec", "composite"} <=> Ran({"build"}) # {}
    /\ (ppc \in {"run", "crashed"} \/ devfile.run # "unread") => devfile.build # "unread"
    /\ \A i \in Ran({"run", "debug"}) :
          /\ devfile.run # "unread"
          /\ xlog[i].g = (IF devfile.debug THEN "debug" ELSE "run")

C16_Witness ==
    /\ componentExists /\ ppc = "returned" /\ perr = "nil"
    /\ devfile.build = "exec" /\ Ran({"build"}) # {} /\ Ran({"init"}) = {}
    /\ devfile.debug /\ Ran({"debug"}) # {} /\ Ran({"run"}) = {}

\* C17: the Run or Debug command is dispatched without restart exactly if
\* the component existed and the command requires no restart, and with
\* restart in every other case; it is dispatched once at most, and once when
\* execDevfile gets to an exec command whose supervisord is up.
C17_RestartOnlyWhenNeeded ==
    /\ \A i \in RunDispatches :
          xlog[i].a = (IF componentExists /\ ~devfile.restart THEN "norestart" ELSE "restart")
    /\ Cardinality(RunDispatches) <= 1
    /\ (ppc = "returned" /\ devfile.run = "exec" /\ perr # "supervisord") =>
          Cardinality(RunDispatches) = 1

C17_Witness ==
    /\ componentExists /\ ~devfile.restart /\ devfile.run = "exec"
    /\ ppc = "returned" /\ perr = "nil"
    /\ \E i \in RunDispatches : xlog[i].a = "norestart"

\* C18: postStart commands run only if the component did not exist, once
\* each and in listed order, when the resources exist and the waits are
\* over, before every Init, Build, Run and Debug dispatch, whatever the sync
\* reported; a failing one is the last command of the push, which returns
\* its error.
C18_PostStartOnFirstCreation ==
    /\ Ran({"postStart"}) # {} =>
          /\ ~componentExists /\ rpc = "done" /\ rerr = "nil" /\ deployment # 0
          /\ ppc \notin {"reconcile", "pod", "sync"}
    /\ \A i \in Ran({"postStart"}) :
          /\ \E n \in 1..Len(devfile.postStart) : devfile.postStart[n] = xlog[i].of
          /\ \A j \in Ran({"postStart"}) :
                /\ i < j => EventPlace(xlog[i].of) <= EventPlace(xlog[j].of)
                /\ (i # j /\ xlog[i].of = xlog[j].of) => xlog[i].c # xlog[j].c
          /\ \A j \in Ran({"init", "build", "run", "debug"}) : i < j
          /\ ~xlog[i].ok => (i = Len(xlog) /\ ppc = "returned" /\ perr = "postStart")
    /\ (~componentExists /\ ppc \in {"init", "build", "run", "returned", "crashed"}
          /\ perr \notin {"postStart", "probe", "rollout", "pod", "source", "sync"}
          /\ rpc = "done" /\ rerr = "nil" /\ Ran({"test"}) = {} /\ devfile # NoDevfile) =>
          \A n \in 1..Len(devfile.postStart) :
             \E i \in Ran({"postStart"}) : xlog[i].of = devfile.postStart[n]

C18_Witness ==
    /\ ~componentExists /\ ppc = "returned" /\ perr = "nil"
    /\ devfile.postStart = <<"hook1", "hook2">>
    /\ Len(xlog) >= 3
    /\ xlog[1].g = "postStart" /\ xlog[1].of = "hook1"
    /\ xlog[2].g = "postStart" /\ xlog[2].of = "hook2"
    /\ xlog[Len(xlog)].a = "restart"

\* C19: after a sync that reports that execution is not required the push
\* dispatches no Init, Build, Run or Debug command and does not start the
\* supervisor; after one that reports that it is required, execDevfile is
\* entered.
C19_ExecutionGatedBySync ==
    /\ ~execRequired => (Ran({"init", "build", "run", "debug"}) = {} /\ ppc \notin {"init", "build", "run", "crashed"})
    /\ (ppc = "returned" /\ perr = "nil" /\ execRequired) =>
          (devfile.build # "unread" /\ devfile.run = "exec" /\ RunDispatches # {})

C19_Witness ==
    /\ componentExists /\ ~execRequired
    /\ ppc = "returned" /\ perr = "nil" /\ Sent("dep.update") /\ xlog = <<>>

\* C20: the commands of a composite run in listed order, each after the
\* earlier ones have succeeded; a command that fails is the last command of
\* the call, which returns an error, be the composite an Init, a Build, a
\* Test or a postStart command.
C20_CompositeFailFast ==
    \A i \in 1..Len(xlog) :
       /\ (xlog[i].a = "sync" /\ ~xlog[i].ok) =>
             (i = Len(xlog) /\ ppc = "returned" /\ perr = xlog[i].g)
       /\ \A n \in 2..Len(CompositeIds) :
             xlog[i].c = CompositeIds[n] =>
                /\ i > 1
                /\ xlog[i-1].c = CompositeIds[n-1] /\ xlog[i-1].ok
                /\ xlog[i-1].g = xlog[i].g /\ xlog[i-1].of = xlog[i].of

C20_Witness ==
    /\ ppc = "returned" /\ perr = "init" /\ Len(xlog) = 2
    /\ xlog[1] = Entry("init", "init", "A", "sync", TRUE)
    /\ xlog[2] = Entry("init", "init", "B", "sync", FALSE)

\* the places in xlog where supervisord was started
SupervisordStarts == {i \in 1..Len(xlog) : xlog[i].a = "supervisord"}

\* C21: for a new component and an exec Run or Debug command, supervisord
\* is started exactly if the container's command is not the supervisord
\* binary, and before the command is dispatched; a start that fails is the
\* last thing the push does, and no Run or Debug dispatch follows.
C21_SupervisordBeforeRun ==
    /\ SupervisordStarts # {} =>
          (~componentExists /\ devfile.run = "exec" /\ ~devfile.supervisord)
    /\ (~componentExists /\ devfile.run = "exec") =>
          (SupervisordStarts # {} <=> ~devfile.supervisord)
    /\ Cardinality(SupervisordStarts) <= 1
    /\ \A i \in SupervisordStarts :
          /\ \A j \in RunDispatches : i < j /\ xlog[i].ok
          /\ ~xlog[i].ok =>
                (i = Len(xlog) /\ RunDispatches = {} /\ ppc = "returned" /\ perr = "supervisord")
    /\ (~componentExists /\ devfile.run = "exec" /\ devfile.supervisord) =>
          RunDispatches # {}

C21_Witness ==
    /\ ~componentExists /\ devfile.run = "exec" /\ ~devfile.supervisord
    /\ ppc = "returned" /\ perr = "supervisord"
    /\ xlog[Len(xlog)].a = "supervisord" /\ ~xlog[Len(xlog)].ok

(***************************************************************************)
(* Claims about Delete                                                     *)
(***************************************************************************)
\* the last call was a Delete: its existence check heads rlog
DeleteCalled ==
    rlog # <<>> /\ rlog[1].op \in {"exists.forbidden", "exists.fail", "exists.yes", "exists.no"}

\* C28: Delete returns nil without a delete when the existence check is
\* forbidden or the component does not exist, returns the error without a
\* delete when the check fails otherwise, and sends a Deployment delete only
\* for a component that exists.
C28_DeleteOnlyExisting ==
    /\ DeleteCalled =>
          /\ rpc = "done"
          /\ rlog[1].op \in {"exists.forbidden", "exists.no"} => (Len(rlog) = 1 /\ rerr = "nil")
          /\ rlog[1].op = "exists.fail" => (Len(rlog) = 1 /\ rerr = "probe")
          /\ rlog[1].op = "exists.no" => deployment = 0
          /\ rlog[1].op = "exists.yes" =>
                /\ Len(rlog) = 2
                /\ \/ rlog[2].op = "dep.delete" /\ rerr = "nil" /\ deployment = 0
                   \/ rlog[2].op = "dep.delete.fail" /\ rerr = "dep.delete" /\ deployment # 0
    /\ \A i \in 1..Len(rlog) :
          rlog[i].op \in {"dep.delete", "dep.delete.fail"} => (i = 2 /\ rlog[1].op = "exists.yes")

C28_Witness ==
    /\ DeleteCalled /\ rlog[1].op = "exists.forbidden"
    /\ deployment # 0 /\ rerr = "nil" /\ Len(rlog) = 1

(***************************************************************************)
(* Claims about runKaniko                                                  *)
(***************************************************************************)
\* the steps of runKaniko in the order of the code
KanikoSteps == <<"pod.create", "pod.initstarted", "pod.transfer", "pod.touch", "pod.succeeded">>
KanikoFailure(k) == KanikoSteps[k] \o ".fail"

\* C30: the Kaniko strategy creates the pod, waits for the init container,
\* transfers the context, writes the sentinel and waits for Succeeded, in
\* this order; the sentinel is written only after a successful transfer, and
\* a step that fails returns the error with no later step taken.
C30_KanikoInOrder ==
    \A k \in 1..Len(KanikoSteps) :
       /\ Count(KanikoSteps[k]) + Count(KanikoFailure(k)) <= 1
       /\ (k > 1 /\ (Has(KanikoSteps[k]) \/ Has(KanikoFailure(k)))) =>
             /\ Has(KanikoSteps[k-1])
             /\ First(KanikoSteps[k-1]) < First(KanikoSteps[k]) + First(KanikoFailure(k))
       /\ Has(KanikoFailure(k)) =>
             /\ bpc = "returned" /\ err = "kaniko"
             /\ \A j \in (k+1)..Len(KanikoSteps) : ~Has(KanikoSteps[j]) /\ ~Has(KanikoFailure(j))

C30_Witness ==
    /\ Has("pod.create") /\ Has("pod.initstarted") /\ Has("pod.transfer.fail")
    /\ ~Has("pod.touch") /\ bpc = "returned" /\ err = "kaniko"

(***************************************************************************)
(* Claims about the build's diagnostic output                              *)
(***************************************************************************)
\* the wait for the build's completion failed or timed out
WaitFailed == Has("wait.fail") \/ Has("pod.succeeded.fail")

\* C29: when the wait for the build's completion fails or times out, the
\* error the strategy returns quotes the output the build has written to
\* its stream up to then.
C29_ErrorCarriesOutput == WaitFailed => errOutput = stream

(***************************************************************************)
(* Claims about Deploy                                                     *)
(***************************************************************************)
\* the call under way, or the last one, is a Deploy
DeployCalled == dlog # <<>> /\ dlog[1].op = "Deploy"
Creates == {"create", "create.fail"}
Updates == {"update", "update.fail"}
\* the requests a step has added to dlog
NewRequests == SubSeq(dlog', Len(dlog) + 1, Len(dlog'))
\* the places of the mutations in a sequence of requests
MutationsIn(reqs) == {i \in 1..Len(reqs) : reqs[i].op \in Creates \cup Updates}
\* the document a turn of Deploy's loop handles
TurnDocument == BytesSplit(manifest')[di]

C23_UpdateCarriesLiveFields ==
    [][dpc = "doc" =>
         \A i \in MutationsIn(NewRequests) :
            LET r == NewRequests[i]
                item == cluster[r.kind]
            IN  /\ r.op \in Updates =>
                      /\ item.live /\ r.rv = item.rv /\ r.ann = item.ann
                      /\ (r.kind = "Service" /\ item.ip # "") => r.ip = item.ip
                /\ r.op \in Creates => (r.rv = 0 /\ r.ann = "template" /\ r.ip = "")]_vars

C23_Witness ==
    /\ DeployCalled
    /\ \E i \in 1..Len(dlog) :
          /\ dlog[i].op = "update" /\ dlog[i].kind = "Service"
          /\ dlog[i].ip = "10.0.0.1" /\ dlog[i].ann = "live" /\ dlog[i].rv = 1

\* the mutations of this call the cluster has accepted, in order
IsApplied(r) == r.op \in {"create", "update"}
Applied == SelectSeq(dlog, IsApplied)
\* the object the cluster returned for an accepted mutation
ReturnedFor(r) == [kind |-> r.kind, rv |-> r.rv + 1]
\* the objects, with a separator between any two of them
RECURSIVE Joined(_)
Joined(rs) ==
    IF rs = <<>> THEN <<>>
    ELSE IF Len(rs) = 1 THEN <<ReturnedFor(rs[1])>>
    ELSE <<ReturnedFor(rs[1]), Separator>> \o Joined(Tail(rs))
\* Deploy returned before it created the local manifest file
EarlyErrors == {"client", "is.get", "isi.get", "file"}

\* C24 as the claim states it: once Deploy has returned, with or without
\* an error, the local manifest file holds exactly the objects returned for
\* the documents applied in this Deploy, in order, with a separator between
\* any two and nothing of an earlier Deploy.
C24_MirrorAfterAnyReturn ==
    (DeployCalled /\ dpc = "returned") => manifestFile = Joined(Applied)

\* C24: a Deploy that fails before it has created the local manifest file
\* leaves the file as it was.  Past that point the file holds exactly the
\* objects returned for the documents applied in this Deploy, in order,
\* with a separator between any two and none before the first, unless a
\* write to the file failed: then the object of the last applied document
\* is missing, and a separator may end the file.
C24_MirrorOfThisDeploy ==
    /\ [](DeployCalled /\ deployErr \notin EarlyErrors =>
             IF deployErr = "write"
             THEN LET before == Joined(SubSeq(Applied, 1, Len(Applied) - 1))
                  IN  /\ Applied # <<>>
                      /\ manifestFile \in {before, Append(before, Separator)}
             ELSE manifestFile = Joined(Applied))
    /\ [][(DeployCalled' /\ deployErr' \in EarlyErrors) => manifestFile' = manifestFile]_vars

C24_Witness ==
    /\ DeployCalled /\ dpc = "returned" /\ deployErr = "apply"
    /\ Len(Applied) = 1 /\ manifestFile = <<[kind |-> "Service", rv |-> 2]>>

\* the documents of the manifest as far as Deploy has read it
Docs == BytesSplit(manifest)
\* Deploy has handled document d
Handled(d) == d < di \/ (d = di /\ d <= Len(Docs) /\ dpc = "returned")
\* substituting or decoding document d fails, or its mutation was refused
FailsToApply(d) ==
    \/ Docs[d] \in {<<"tmpl">>, <<"dep.exec">>, <<"junk">>}
    \/ \E i \in 1..Len(dlog) : dlog[i].doc = d /\ dlog[i].op \in {"create.fail", "update.fail"}

\* C25: when substituting, decoding, creating or updating document k fails,
\* Deploy returns an error at that document; the documents before it stay
\* applied and no later document is applied.
C25_FailingDocumentStops ==
    DeployCalled =>
       \A d \in 1..Len(Docs) :
          (Handled(d) /\ FailsToApply(d)) =>
             /\ dpc = "returned" /\ deployErr # "nil" /\ di = d
             /\ \A i \in 1..Len(dlog) :
                   /\ dlog[i].doc <= d
                   /\ IsApplied(dlog[i]) =>
                         (dlog[i].doc < d /\ cluster[dlog[i].kind].live /\ cluster[dlog[i].kind].rv > dlog[i].rv)

\* the reads and updates of the image stream
StreamReads == {i \in 1..Len(dlog) : dlog[i].op \in {"is.get", "is.get.fail", "isi.get", "isi.get.fail"}}
StreamUpdates == {i \in 1..Len(dlog) : dlog[i].op \in {"is.update", "is.update.fail"}}
\* the kinds of the last n owner references
LastRefs(refs, n) == SubSeq(refs, Len(refs) - n + 1, Len(refs))
AppliedKinds == [i \in 1..Len(Applied) |-> Applied[i].kind]

\* C26: a Deploy with a tag neither reads nor updates the image stream.  A
\* Deploy without tag updates it at most once, as its last request after
\* the last document, never after a failing document, and does so whenever
\* it returns without error; the update carries an owner reference for
\* each object applied, in order.
C26_ImageStreamPersistedOnce ==
    DeployCalled =>
       /\ tagged => (StreamReads = {} /\ StreamUpdates = {} /\ ~imageStream.set)
       /\ Cardinality(StreamUpdates) <= 1
       /\ imageStream.set => (Len(imageStream.refs) >= Len(Applied)
                               /\ LastRefs(imageStream.refs, Len(Applied)) = AppliedKinds)
       /\ \A i \in StreamUpdates :
             /\ ~tagged /\ i = Len(dlog) /\ dpc = "returned" /\ di = Len(Docs) + 1
             /\ dlog[i].op = "is.update" => streamRefs = imageStream.refs
       /\ deployErr \in {"substitute", "decode", "apply"} => StreamUpdates = {}
       /\ (~tagged /\ dpc = "returned" /\ deployErr \in {"nil", "close"}) =>
             \E i \in StreamUpdates : dlog[i].op = "is.update"

C26_Witness ==
    /\ DeployCalled /\ ~tagged /\ dpc = "returned" /\ deployErr = "nil"
    /\ Len(Applied) = 2
    /\ LastRefs(streamRefs, 2) = <<"Service", "Deployment">>

(***************************************************************************)
(* Claims about DeployDelete                                               *)
(***************************************************************************)
DeployDeleteCalled == dlog # <<>> /\ dlog[1].op = "DeployDelete"

\* C27: DeployDelete looks an object up before it deletes it.  A lookup
\* that fails is its last request: it returns the "not found" error.  A
\* lookup that succeeds is followed by exactly one delete of that object.
\* What an earlier document has deleted stays deleted.
C27_LookupBeforeDelete ==
    DeployDeleteCalled =>
       \A i \in 2..Len(dlog) :
          /\ dlog[i].op \in {"get", "get.fail", "delete", "delete.fail"}
          /\ dlog[i].op = "get.fail" =>
                (i = Len(dlog) /\ dpc = "returned" /\ deployErr = "not found" /\ di = dlog[i].doc)
          /\ dlog[i].op = "get" =>
                /\ i < Len(dlog)
                /\ dlog[i + 1].op \in {"delete", "delete.fail"}
                /\ dlog[i + 1].doc = dlog[i].doc /\ dlog[i + 1].kind = dlog[i].kind
          /\ dlog[i].op \in {"delete", "delete.fail"} =>
                /\ dlog[i - 1].op = "get" /\ dlog[i - 1].doc = dlog[i].doc
                /\ \A j \in 2..Len(dlog) :
                      (dlog[j].op \in {"delete", "delete.fail"} /\ dlog[j].doc = dlog[i].doc) => j = i
          /\ dlog[i].op = "delete" => ~cluster[dlog[i].kind].live
          /\ dlog[i].op = "delete.fail" => (i = Len(dlog) /\ dpc = "returned" /\ deployErr = "delete")

C27_Witness ==
    /\ DeployDeleteCalled /\ Len(dlog) = 4
    /\ dlog[3].op = "delete" /\ dlog[4].op = "get.fail"
    /\ ~cluster[dlog[3].kind].live /\ deployErr = "not found"


(***************************************************************************)
(* Claims about the builder pod of runKaniko                               *)
(***************************************************************************)
\* the pod-based Build of this process was interrupted or one of its steps failed
KanikoCutShort ==
    /\ Has("pod.create")
    /\ \/ proc = "killed"
       \/ bpc = "returned" /\ err = "kaniko"

\* C33: an interrupt during a pod-based build, or a failure at a step of
\* runKaniko, leaves no builder pod behind, and a Build that comes to create
\* its builder pod finds no pod of that name.
C33_NoBuilderPodLeft ==
    /\ KanikoCutShort => ~kpod
    /\ bpc = "k_create" => ~kpod

\* C34: whenever Build has created the Kaniko builder pod, this Build has
\* created the secret regcred before, for an internal-registry tag too.
C34_SecretBeforeBuilderPod ==
    Has("pod.create") => (Has("secret.create") /\ Before("secret.create", "pod.create"))


(***************************************************************************)
(* Claims about the empty tag                                              *)
(***************************************************************************)
\* C39: a Build called with an empty tag, on a cluster that supports
\* BuildConfig and without rootless, reaches runBuildConfig, whose empty-tag
\* branch gives the build the output kind ImageStreamTag.
C39_EmptyTagReachesImageStream ==
    ( /\ Has("Build") /\ tag = <<>> /\ bpc = "returned"
      /\ err \notin {"clientErr", "supportedErr"}
      /\ isBuildConfigSupported /\ ~rootless )
       => (RanBuildConfig /\ (Has("bc.create") => BuildOutput(tag) = "ImageStreamTag"))


(***************************************************************************)
(* Claims about the listener after a failed runBuildConfig                 *)
(***************************************************************************)
\* runBuildConfig has returned an error of its own steps to Build
RbcFailed ==
    RanBuildConfig /\ bpc = "returned" /\ primary \in {"create", "sync", "trigger", "wait"}

\* C35: once runBuildConfig has returned with an error, the channel it
\* registered receives no more signals, so terminateBuild neither deletes
\* the build object nor ends the process for an interrupt that arrives later.
C35_ListenerDisarmedAfterFailure ==
    RbcFailed => ~notify


(***************************************************************************)
(* Claims about the Run and Debug command of execDevfile                   *)
(***************************************************************************)
\* supervisord runs in the pod the Run or Debug command is dispatched to:
\* it is the container's command, or this push has started it in the pod,
\* or the pod is the one the component had before this push
SupervisordRuns(i) ==
    \/ devfile.supervisord
    \/ \E j \in SupervisordStarts : j < i /\ xlog[j].ok
    \/ componentExists /\ ~podChanged

\* C36: whenever Push dispatches the Run or Debug command to a pod,
\* supervisord is running in the target container of that pod, also when the
\* rollout has replaced the pod of an existing component.
C36_SupervisordRunsAtDispatch ==
    \A i \in RunDispatches : SupervisordRuns(i)

\* C37: a Push whose Run or Debug command is a composite command ends by
\* dispatching the command or by returning an error: execDevfile never
\* reads the exec variant of a command that has none.
C37_CompositeRunNoCrash ==
    /\ ppc # "crashed"
    /\ \A i \in 1..Len(xlog) : xlog[i].a # "panic"
    /\ (ppc = "returned" /\ devfile.run = "composite") =>
          (perr # "nil" \/ Ran({"run", "debug"}) # {})


(***************************************************************************)
(* Claims about the stages of Push                                         *)
(***************************************************************************)
\* the stage a Push is at: 1 createOrUpdateComponent, 2 the rollout wait,
\* 3 the pod wait, 4 the sync, 5 the postStart events, 6 Init, 7 Build,
\* 8 Run or Debug, 9 ended
Stage ==
    CASE ppc = "reconcile" /\ rpc # "done" -> 1
      [] ppc = "reconcile" /\ rpc = "done" /\ rerr = "nil" -> 2
      [] ppc = "pod" -> 3
      [] ppc = "sync" -> 4
      [] ppc = "poststart" -> 5
      [] ppc = "init" -> 6
      [] ppc = "build" -> 7
      [] ppc = "run" -> 8
      [] OTHER -> 9
\* the groups whose commands the stage executes
StageGroups(n) ==
    CASE n = 5 -> {"postStart"}
      [] n = 6 -> {"init"}
      [] n = 7 -> {"build"}
      [] n = 8 -> {"run", "debug"}
      [] OTHER -> {}
\* a stage has failed in this step; ApplyConfig (lines 480-483), whose
\* failure ends the process, is none of the stages
StageFails ==
    \/ perr' # perr /\ perr' \notin {"nil", "config"}
    \/ rerr' # rerr /\ rerr' # "nil"
\* Push has returned an error
ReturnedError ==
    \/ ppc = "returned" /\ perr # "nil"
    \/ ppc = "reconcile" /\ rpc = "done" /\ rerr # "nil"

\* C32: a Push goes through its stages in the order probe, reconciliation,
\* rollout wait, pod wait, sync, postStart events, Init, Build, Run or
\* Debug: requests are sent only during reconciliation, a command is
\* executed only in the stage of its group, and the waits and the sync are
\* never passed over; a stage that fails makes Push return an error, and
\* nothing is done after it.
C32_StagesInOrder ==
    [][ nops' = nops =>
          /\ Stage' >= Stage
          /\ Stage' > Stage + 1 => (Stage' = 9 \/ (Stage = 4 /\ Stage' = 6))
          /\ rlog' # rlog => Stage = 1
          /\ xlog' # xlog =>
                /\ Len(xlog') > Len(xlog) /\ SubSeq(xlog', 1, Len(xlog)) = xlog
                /\ \A i \in (Len(xlog) + 1)..Len(xlog') : xlog'[i].g \in StageGroups(Stage)
          /\ StageFails => (Stage' = 9 /\ ReturnedError')
          /\ ((\E i \in 1..Len(xlog') : ~xlog'[i].ok) /\ xlog' # xlog) => ReturnedError'
          /\ Stage = 9 => UNCHANGED <<rlog, xlog, ppc, perr, rerr>>
      ]_vars


(***************************************************************************)
(* Claims about validation errors                                          *)
(***************************************************************************)
\* Push has returned because the commands, or the debug command, are not valid
PushInvalid == perr \in {"validate", "debug"}
\* Build has returned because the tag is malformed
TagInvalid == err = "tagErr"
\* the objects of the component and of the build on the cluster
ClusterObjects == <<deployment, service, pvcs, secret, bc, kpod>>

\* C31: a Push with commands that are not valid returns its error with no
\* request sent by createOrUpdateComponent and no Deployment, Service or PVC
\* changed; a Build with a malformed tag returns its error with no secret,
\* build object or builder pod asked for or created.
C31_ValidationBeforeMutation ==
    /\ [](PushInvalid => (ppc = "returned" /\ rpc = "done" /\ rlog = <<>>))
    /\ [](TagInvalid =>
             /\ bpc = "returned"
             /\ \A i \in 1..Len(blog) : blog[i] \in {"Build", "probe"})
    /\ [][(PushInvalid' \/ TagInvalid') => UNCHANGED ClusterObjects]_vars

\* the commands of a component that exists are not valid: Push has returned
\* and the live Deployment has got no request
C31_Witness ==
    /\ PushInvalid /\ ppc = "returned" /\ nops = 2
    /\ deployment # 0 /\ rlog = <<>>


(***************************************************************************)
(* Claims about empty documents in DeployDelete                            *)
(***************************************************************************)
\* C38: DeployDelete passes over an empty document as Deploy does: it
\* returns no decode error for a document that is empty, and a manifest
\* that it has read to the end without an error has had the object of
\* every document that is not empty deleted.
C38_EmptyDocumentsSkipped ==
    DeployDeleteCalled =>
       /\ (dpc = "returned" /\ deployErr = "decode") => BytesSplit(manifest)[di] # <<>>
       /\ (dpc = "returned" /\ deployErr = "nil") =>
             \A d \in 1..Len(BytesSplit(manifest)) :
                BytesSplit(manifest)[d] # <<>> =>
                   \E j \in 1..Len(dlog) : dlog[j].op = "delete" /\ dlog[j].doc = d

====
